---- MODULE Spec2Model ----
(***************************************************************************)
(* Wallet connection controller (WalletProvider), the PortfolioMetrics     *)
(* component, the three API routes with lib/stellarService, and the refine *)
(* action of the Home page of the portfolio dashboard.  Each component has *)
(* its own specification (Spec, SpecStats, SpecServer, SpecRefine and,     *)
(* with the browser's timers firing, SpecRefineFair) over the one list of  *)
(* variables; the variables of the others stay unchanged.                  *)
(*                                                                         *)
(* JavaScript strings are sequences of tokens: an address is a sequence of *)
(* characters, a message a sequence of words, a balance a one-token        *)
(* sequence.  The JavaScript value null is the sequence <<"null">>, which  *)
(* no string of the model equals.  Every asynchronous call that has been   *)
(* issued and not yet answered is an element of the bag inflight; the      *)
(* environment (extension, ledger) answers them in any order.  connect,    *)
(* refreshConnection and disconnect can be called whenever the provider is *)
(* mounted: the context hands them to every consumer.  The monitor effect  *)
(* is committed with the state update that changes its dependencies.       *)
(***************************************************************************)
EXTENDS Integers, Sequences, FiniteSets, Bags, TLC

VARIABLES
    isClientReady,        \* useState(false), set by the first effect
    state,                \* the WalletState record
    storage,              \* localStorage[WALLET_STORAGE_KEY]
    pollingIntervalRef,   \* pollingIntervalRef.current (0 is null)
    pollTimers,           \* ids of the setInterval(pollForAddress) timers not yet cleared
    monitorTimer,         \* the monitor effect's setInterval is registered
    inflight,             \* bag of awaited calls that have not resolved yet
    sinceDisconnect,      \* history: disconnect() ran and connect() was not invoked since
    lastOp,               \* history: name of the handler that ran last
    lastReply,            \* history: the answer that handler received (null: none)
    \* PortfolioMetrics
    contractStats,        \* useState<ContractStats | null>(null)
    statsLoading,         \* useState(true)
    statsError,           \* useState<string | null>(null)
    statsPc,              \* where fetchContractStats is: unmounted, fetching, waiting, loaded, failed
    retryTimer,           \* the running call's arguments, or the pending setTimeout and its call's
    clock,                \* seconds since the page loaded
    attemptStarted,       \* history: time in ms at which each attempt began
    attemptEnded,         \* history: time in ms at which each failed attempt ended
    scheduled,            \* history: the delays handed to setTimeout, in order
    \* the server: lib/stellarService and the API routes
    contractId,           \* CONTRACT_ID: process.env.SOROBAN_CONTRACT_ID || ''
    srvPc,                \* the await at which the handler of the exchange stands
    srvRequest,           \* route and JSON body of the request being served
    srvCall,              \* history: what the awaited RPC calls of the exchange answered
    srvResult,            \* what the service function returned to the route
    response,             \* the NextResponse of the exchange
    srvTimer,             \* the await stands in a Promise.race against the REQUEST_TIMEOUT timer
    \* the Home page
    isRefining,           \* useState(false)
    refineMessage,        \* useState(null): type and text
    cooldownSeconds,      \* useState<number | null>(null)
    refinePc,             \* the await at which handleRefineStrategy stands
    reloadTimer,          \* setTimeout(window.location.reload, 2000) is pending
    refineCount,          \* history: clicks on Refine Strategy
    refineSteps,          \* history: the requests the running action has issued
    refineReplies,        \* history: what they answered
    cooldownInterval,     \* the countdown effect's setInterval is registered
    submitBody            \* history: signedXdr of the body the action sent to POST /submit

walletVars == <<isClientReady, state, storage, pollingIntervalRef, pollTimers,
                monitorTimer, inflight, sinceDisconnect, lastOp, lastReply>>

statsVars == <<contractStats, statsLoading, statsError, statsPc, retryTimer, clock,
               attemptStarted, attemptEnded, scheduled>>

serverVars == <<contractId, srvPc, srvRequest, srvCall, srvResult, response, srvTimer>>

pageVars == <<isRefining, refineMessage, cooldownSeconds, refinePc, reloadTimer,
              refineCount, refineSteps, refineReplies, cooldownInterval, submitBody>>

vars == <<walletVars, statsVars, serverVars, pageVars>>

-----------------------------------------------------------------------------
(* Bounds of the model *)

MaxInFlight == 2
MaxTimers == 2
MaxClock == 8

-----------------------------------------------------------------------------
(* Values *)

Null == <<"null">>
EmptyString == <<>>

GA == <<"G", "A">>
GB == <<"G", "B">>
XA == <<"X", "A">>

\* what getAddress() can put in its reply's address field
AddressReplies == {GA, GB, XA, EmptyString}
Throws == <<"throws">>

MsgNotInstalled == <<"Freighter", "wallet", "is", "not", "installed">>
MsgFailedToConnect == <<"Failed", "to", "connect", "wallet">>
MsgWalletDisconnected == <<"Wallet", "disconnected">>
MsgWalletLocked == <<"Wallet", "locked">>

\* messages of the errors the extension can throw (the empty one: no message)
MsgDenied == <<"Access", "denied">>
MsgIsLocked == <<"Wallet", "is", "locked">>
ThrownMessages == {MsgDenied, MsgIsLocked, EmptyString}

FallbackBalance == <<"10000.00">>
ZeroBalance == <<"0">>
NativeAmount == <<"123.4567890">>

\* outcomes of server.loadAccount(publicKey)
LedgerReplies == {"native", "noNative", "notFound", "otherError"}

NoMarker == [present |-> FALSE, address |-> Null, isAuthorized |-> FALSE]
Marker(pk) == [present |-> TRUE, address |-> pk, isAuthorized |-> TRUE]

InitialState ==
    [address |-> Null, isAuthorized |-> FALSE, isLoading |-> FALSE,
     error |-> Null, balance |-> Null, isWalletLocked |-> FALSE]

Op(kind, arg, persist) == [kind |-> kind, arg |-> arg, persist |-> persist]

-----------------------------------------------------------------------------
(* String helpers *)

Truthy(s) == s # Null /\ s # EmptyString

\* a || null
OrNull(s) == IF Truthy(s) THEN s ELSE Null

RECURSIVE TrimLeft(_)
TrimLeft(s) ==
    IF s # <<>> /\ Head(s) = " " THEN TrimLeft(Tail(s)) ELSE s

RECURSIVE TrimRight(_)
TrimRight(s) ==
    IF s # <<>> /\ s[Len(s)] = " " THEN TrimRight(SubSeq(s, 1, Len(s) - 1)) ELSE s

Trim(s) == TrimRight(TrimLeft(s))

StartsWith(s, c) == Len(s) > 0 /\ s[1] = c

\* message.includes(word), on word tokens
Includes(msg, word) == \E i \in 1..Len(msg) : msg[i] = word

-----------------------------------------------------------------------------
(* Timers *)

\* clearInterval(id)
ClearInterval(timers, id) == timers \ {id}

\* the id setInterval returns: one no active timer has
FreeTimerIds(timers) == (1..MaxTimers) \ timers

NewTimerId(timers) == CHOOSE id \in FreeTimerIds(timers) : \A other \in FreeTimerIds(timers) : id <= other

\* startPolling without its lines 93-96
ClearExistingSkipped(ref, timers) == timers

\* startPolling, lines 93-96: "Clear any existing interval"
ClearExisting(ref, timers) == IF ref # 0 THEN ClearInterval(timers, ref) ELSE timers

\* startPolling: the ref and the timers after line 147
StartPollingTimers(ref, timers) ==
    LET cleared == ClearExisting(ref, timers)
        id == NewTimerId(cleared)
    IN  [ref |-> id, timers |-> cleared \cup {id}]

\* stopPolling that resets the ref and forgets clearInterval
StopPollingKeepsTimer(ref, timers) == [ref |-> 0, timers |-> timers]

\* stopPolling
StopPollingTimers(ref, timers) ==
    IF ref # 0
    THEN [ref |-> 0, timers |-> ClearInterval(timers, ref)]
    ELSE [ref |-> ref, timers |-> timers]

\* pollForAddress that goes on polling after it got the address
AcquiredKeepsPolling(ref, timers) == [ref |-> ref, timers |-> timers]

\* pollForAddress, lines 110-114: "STOP POLLING - We got the address!"
AcquiredTimers(ref, timers) ==
    IF ref # 0
    THEN [ref |-> 0, timers |-> ClearInterval(timers, ref)]
    ELSE [ref |-> ref, timers |-> timers]

\* the monitor effect (deps isClientReady, state.address): its interval is
\* registered exactly while the committed render has a client and an address
MonitorEffect(ready, st) == ready /\ Truthy(st.address)

-----------------------------------------------------------------------------
(* State updates: the setState calls of the controller *)

\* connect, line 164
ConnectStartState(st) == [st EXCEPT !.isLoading = TRUE, !.error = Null]

\* connect's catch block without isLoading: false
ConnectFailKeepsLoading(st, msg) ==
    [st EXCEPT !.error = IF Truthy(msg) THEN msg ELSE MsgFailedToConnect,
               !.isWalletLocked = Includes(msg, "locked") \/ Includes(msg, "denied")]

\* connect, lines 187-192; an absent message makes isWalletLocked the falsy
\* undefined, which every reader coerces to false
ConnectFailState(st, msg) ==
    [st EXCEPT !.isLoading = FALSE,
               !.error = IF Truthy(msg) THEN msg ELSE MsgFailedToConnect,
               !.isWalletLocked = Includes(msg, "locked") \/ Includes(msg, "denied")]

\* pollForAddress, line 104
IsAcquired(publicKey) ==
    Truthy(publicKey) /\ Trim(publicKey) # EmptyString /\ StartsWith(publicKey, "G")

\* pollForAddress, lines 117-124
\* an acquisition that leaves the spinner on
PollAcquiredKeepsLoading(st, publicKey) ==
    [st EXCEPT !.address = publicKey, !.isAuthorized = TRUE, !.isWalletLocked = FALSE,
               !.error = Null]

PollAcquiredState(st, publicKey) ==
    [st EXCEPT !.address = publicKey, !.isAuthorized = TRUE,
               !.isWalletLocked = FALSE, !.error = Null, !.isLoading = FALSE]

\* fetchBalance, lines 56-59: the calls it issues (none for an invalid key)
FetchBalanceCalls(publicKey, persist) ==
    IF ~Truthy(publicKey) \/ Trim(publicKey) = EmptyString
    THEN EmptyBag
    ELSE SetToBag({Op("loadAccount", publicKey, persist)})

\* a failed poll that reports the wallet as locked
PollFailedSetsError(st, reply) == [st EXCEPT !.error = MsgWalletLocked, !.isLoading = FALSE]

\* pollForAddress, lines 134-140: a reply without a usable address and a
\* rejected getAddress() are logged, and nothing is set
PollFailedState(st, reply) == st

\* fetchBalance, lines 66-85
BalanceOf(reply) ==
    CASE reply = "native" -> NativeAmount
      [] reply = "noNative" -> ZeroBalance
      [] reply = "notFound" -> FallbackBalance
      [] OTHER -> FallbackBalance

\* fetchBalance that reports an error other than 404 instead of substituting
FetchBalanceSurfacesError(st, reply) ==
    IF reply = "otherError"
    THEN [st EXCEPT !.error = MsgFailedToConnect]
    ELSE [st EXCEPT !.balance = BalanceOf(reply)]

FetchBalanceState(st, reply) == [st EXCEPT !.balance = BalanceOf(reply)]

\* disconnect that leaves isAuthorized as it was
DisconnectKeepsAuthorized(st) == [InitialState EXCEPT !.isAuthorized = st.isAuthorized]

\* disconnect, lines 208-216
DisconnectState(st) == InitialState

\* checkConnection, lines 233-237 and 246-250
MonitorDisconnectedState(st) ==
    [st EXCEPT !.error = MsgWalletDisconnected, !.isWalletLocked = TRUE]

\* a monitor that takes the lock back when the wallet answers again
MonitorSeenUnlocks(st, publicKey) == [st EXCEPT !.isWalletLocked = FALSE, !.error = Null]

\* checkConnection, lines 241-251: for a reply with an address nothing is set
MonitorSeenState(st, publicKey) == st

\* a monitor that drops the connection when it finds the wallet locked
MonitorLockedForgets(st) ==
    [st EXCEPT !.address = Null, !.isAuthorized = FALSE, !.balance = Null,
               !.isWalletLocked = TRUE, !.error = MsgWalletLocked]

MonitorLockedState(st) ==
    [st EXCEPT !.isWalletLocked = TRUE, !.error = MsgWalletLocked]

\* auto-reconnect that restores the address and leaves isWalletLocked as it was
AutoRestoredKeepsLocked(st, publicKey) ==
    [st EXCEPT !.address = publicKey, !.isAuthorized = TRUE]

\* auto-reconnect, lines 280-285 and 293
AutoRestoredState(st, publicKey) ==
    [st EXCEPT !.address = publicKey, !.isAuthorized = TRUE, !.isWalletLocked = FALSE]

AutoLockedState(st) == [st EXCEPT !.isWalletLocked = TRUE]

\* auto-reconnect that takes the saved address on trust
AutoMismatchTrustsMarker(st, savedAddress) ==
    [st EXCEPT !.address = savedAddress, !.isAuthorized = TRUE]

\* auto-reconnect, lines 287-290: for a reply other than the saved address
\* nothing is set
AutoMismatchState(st, savedAddress) == st

-----------------------------------------------------------------------------
(* PortfolioMetrics: what it renders for a wallet state, lines 62-69 *)

HasAddress(st) == Truthy(st.address) /\ Trim(st.address) # EmptyString

HasBalance(st) == st.balance # Null

ShouldShowConnectMessage(st) == ~HasAddress(st) /\ ~st.isWalletLocked

ShouldShowLocked(st) ==
    st.isWalletLocked \/ (~HasAddress(st) /\ st.error # Null /\ Includes(st.error, "locked"))

ShouldShowLoading(st) == HasAddress(st) /\ ~HasBalance(st) /\ st.isLoading

ShouldShowBalance(st) == HasAddress(st) /\ HasBalance(st)

\* the panels of lines 112-188 that are in the rendered tree
RenderedPanels(st) ==
    {p \in {"locked", "disconnected", "loading", "connected"} :
        \/ p = "locked" /\ ShouldShowLocked(st)
        \/ p = "disconnected" /\ ShouldShowConnectMessage(st) /\ ~ShouldShowLocked(st)
        \/ p = "loading" /\ ShouldShowLoading(st)
        \/ p = "connected" /\ ShouldShowBalance(st)}

-----------------------------------------------------------------------------
(* The controller *)

WalletInit ==
    /\ isClientReady = FALSE
    /\ state = InitialState
    /\ storage \in {NoMarker, Marker(GA), Marker(GB)}
    /\ pollingIntervalRef = 0
    /\ pollTimers = {}
    /\ monitorTimer = FALSE
    /\ inflight = EmptyBag
    /\ sinceDisconnect = FALSE
    /\ lastOp = "init"
    /\ lastReply = Null

Pending(kind) == {op \in BagToSet(inflight) : op.kind = kind}

Issue(op) == inflight (+) SetToBag({op})

Resolve(op) == inflight (-) SetToBag({op})

CanIssue == BagCardinality(inflight) < MaxInFlight

\* auto-reconnect effect, lines 266-275: the query it issues for a saved address
AutoReconnectCalls(sto) ==
    IF sto.present /\ Truthy(sto.address)
    THEN SetToBag({Op("auto.getAddress", sto.address, FALSE)})
    ELSE EmptyBag

\* first effect (setIsClientReady) and the effects that depend on isClientReady
Mount ==
    /\ ~isClientReady
    /\ isClientReady' = TRUE
    /\ inflight' = inflight (+) AutoReconnectCalls(storage)
    /\ monitorTimer' = MonitorEffect(TRUE, state)
    /\ lastOp' = "mount"
    /\ lastReply' = Null
    /\ UNCHANGED <<state, storage, pollingIntervalRef, pollTimers, sinceDisconnect>>

\* connect(), up to its first await
ConnectCall(name) ==
    /\ isClientReady
    /\ CanIssue
    /\ state' = ConnectStartState(state)
    /\ inflight' = Issue(Op("connect.isConnected", Null, FALSE))
    /\ monitorTimer' = MonitorEffect(isClientReady, state')
    /\ sinceDisconnect' = FALSE
    /\ lastOp' = name
    /\ lastReply' = Null
    /\ UNCHANGED <<isClientReady, storage, pollingIntervalRef, pollTimers>>

Connect == ConnectCall("connect")

\* refreshConnection(): awaits connect()
RefreshConnection == ConnectCall("refreshConnection")

\* isConnected() answered true: connect goes on to await requestAccess()
ConnectExtensionPresent ==
    \E op \in Pending("connect.isConnected") :
        /\ inflight' = Resolve(op) (+) SetToBag({Op("connect.requestAccess", Null, FALSE)})
        /\ lastOp' = "connect.requestAccess"
        /\ lastReply' = <<"true">>
        /\ UNCHANGED <<isClientReady, state, storage, pollingIntervalRef, pollTimers,
                       monitorTimer, sinceDisconnect>>

\* connect's catch block, lines 182-193
ConnectCatch(op, msg, name, reply) ==
    LET stopped == StopPollingTimers(pollingIntervalRef, pollTimers)
    IN  /\ pollingIntervalRef' = stopped.ref
        /\ pollTimers' = stopped.timers
        /\ state' = ConnectFailState(state, msg)
        /\ inflight' = Resolve(op)
        /\ monitorTimer' = MonitorEffect(isClientReady, state')
        /\ lastOp' = name
        /\ lastReply' = reply
        /\ UNCHANGED <<isClientReady, storage, sinceDisconnect>>

\* isConnected() answered false: throw new Error('Freighter wallet is not installed')
ConnectNotInstalled ==
    \E op \in Pending("connect.isConnected") :
        ConnectCatch(op, MsgNotInstalled, "connect.notInstalled", <<"false">>)

\* isConnected() or requestAccess() rejected
ConnectThrows ==
    \E op \in Pending("connect.isConnected") \cup Pending("connect.requestAccess") :
        \E msg \in ThrownMessages :
            ConnectCatch(op, msg,
                         IF op.kind = "connect.isConnected"
                         THEN "connect.isConnectedThrew" ELSE "connect.accessRefused",
                         Throws)

\* startPolling(): clear, run pollForAddress at once, register the interval
StartPolling(op, st, name, reply) ==
    LET started == StartPollingTimers(pollingIntervalRef, pollTimers)
    IN  /\ FreeTimerIds(ClearExisting(pollingIntervalRef, pollTimers)) # {}
        /\ pollingIntervalRef' = started.ref
        /\ pollTimers' = started.timers
        /\ state' = st
        /\ inflight' = Resolve(op) (+) SetToBag({Op("poll.getAddress", Null, FALSE)})
        /\ monitorTimer' = MonitorEffect(isClientReady, state')
        /\ lastOp' = name
        /\ lastReply' = reply
        /\ UNCHANGED <<isClientReady, storage, sinceDisconnect>>

\* requestAccess() resolved: connect calls startPolling()
ConnectAccessGranted ==
    \E op \in Pending("connect.requestAccess") :
        StartPolling(op, state, "connect.startPolling", Null)

\* a tick of the polling interval: pollForAddress() up to its await
PollTick ==
    /\ pollTimers # {}
    /\ CanIssue
    /\ inflight' = Issue(Op("poll.getAddress", Null, FALSE))
    /\ lastOp' = "poll.tick"
    /\ lastReply' = Null
    /\ UNCHANGED <<isClientReady, state, storage, pollingIntervalRef, pollTimers,
                   monitorTimer, sinceDisconnect>>

\* pollForAddress: getAddress() answered an address that passes line 104
PollAcquired ==
    \E op \in Pending("poll.getAddress") :
        \E reply \in AddressReplies :
            LET publicKey == OrNull(reply)
                stopped == AcquiredTimers(pollingIntervalRef, pollTimers)
            IN  /\ IsAcquired(publicKey)
                /\ pollingIntervalRef' = stopped.ref
                /\ pollTimers' = stopped.timers
                /\ state' = PollAcquiredState(state, publicKey)
                /\ inflight' = Resolve(op) (+) FetchBalanceCalls(publicKey, TRUE)
                /\ monitorTimer' = MonitorEffect(isClientReady, state')
                /\ lastOp' = "poll.acquired"
                /\ lastReply' = reply
                /\ UNCHANGED <<isClientReady, storage, sinceDisconnect>>

\* pollForAddress: no usable address (lines 134-136) or getAddress() rejected
\* (lines 137-140)
PollNoAddress ==
    \E op \in Pending("poll.getAddress") :
        \E reply \in AddressReplies \cup {Throws} :
            /\ reply = Throws \/ ~IsAcquired(OrNull(reply))
            /\ state' = PollFailedState(state, reply)
            /\ inflight' = Resolve(op)
            /\ lastOp' = "poll.noAddress"
            /\ lastReply' = reply
            /\ UNCHANGED <<isClientReady, storage, pollingIntervalRef, pollTimers,
                           monitorTimer, sinceDisconnect>>

\* fetchBalance after loadAccount settles; when pollForAddress awaited it, the
\* poll's continuation (localStorage.setItem, lines 130-133) runs in the same task
LoadAccountSettled ==
    \E op \in Pending("loadAccount") :
        \E reply \in LedgerReplies :
            /\ state' = FetchBalanceState(state, reply)
            /\ storage' = IF op.persist THEN Marker(op.arg) ELSE storage
            /\ inflight' = Resolve(op)
            /\ monitorTimer' = MonitorEffect(isClientReady, state')
            /\ lastOp' = "fetchBalance"
            /\ lastReply' = <<reply>>
            /\ UNCHANGED <<isClientReady, pollingIntervalRef, pollTimers, sinceDisconnect>>

\* a tick of the monitor interval: checkConnection() up to its first await;
\* the closure holds the address of the render that registered the interval
MonitorTick ==
    /\ monitorTimer
    /\ CanIssue
    /\ inflight' = Issue(Op("monitor.isConnected", state.address, FALSE))
    /\ lastOp' = "monitor.tick"
    /\ lastReply' = Null
    /\ UNCHANGED <<isClientReady, state, storage, pollingIntervalRef, pollTimers,
                   monitorTimer, sinceDisconnect>>

\* checkConnection, lines 230-241: isConnected() answered
MonitorIsConnected ==
    \E op \in Pending("monitor.isConnected") :
        \E connected \in BOOLEAN :
            /\ state' = IF ~connected /\ Truthy(op.arg)
                        THEN MonitorDisconnectedState(state) ELSE state
            /\ inflight' = Resolve(op) (+) SetToBag({Op("monitor.getAddress", op.arg, FALSE)})
            /\ monitorTimer' = MonitorEffect(isClientReady, state')
            /\ lastOp' = "monitor.isConnected"
            /\ lastReply' = IF connected THEN <<"true">> ELSE <<"false">>
            /\ UNCHANGED <<isClientReady, storage, pollingIntervalRef, pollTimers,
                           sinceDisconnect>>

\* checkConnection, lines 241-251: getAddress() answered
MonitorGetAddress ==
    \E op \in Pending("monitor.getAddress") :
        \E reply \in AddressReplies :
            LET publicKey == OrNull(reply)
            IN  /\ state' = IF ~Truthy(publicKey) /\ Truthy(op.arg)
                            THEN MonitorLockedState(state)
                            ELSE MonitorSeenState(state, publicKey)
                /\ inflight' = Resolve(op)
                /\ monitorTimer' = MonitorEffect(isClientReady, state')
                /\ lastOp' = "monitor.getAddress"
                /\ lastReply' = reply
                /\ UNCHANGED <<isClientReady, storage, pollingIntervalRef, pollTimers,
                               sinceDisconnect>>

\* checkConnection, lines 252-254: either call rejected
MonitorThrows ==
    \E op \in Pending("monitor.isConnected") \cup Pending("monitor.getAddress") :
        /\ inflight' = Resolve(op)
        /\ lastOp' = "monitor.threw"
        /\ lastReply' = Throws
        /\ UNCHANGED <<isClientReady, state, storage, pollingIntervalRef, pollTimers,
                       monitorTimer, sinceDisconnect>>

\* auto-reconnect, lines 278-286: the reply is the saved address
AutoRestored ==
    \E op \in Pending("auto.getAddress") :
        \E reply \in AddressReplies :
            LET publicKey == OrNull(reply)
            IN  /\ publicKey = op.arg
                /\ state' = AutoRestoredState(state, publicKey)
                /\ inflight' = Resolve(op) (+)
                       (IF Truthy(publicKey) THEN FetchBalanceCalls(publicKey, FALSE)
                        ELSE EmptyBag)
                /\ monitorTimer' = MonitorEffect(isClientReady, state')
                /\ lastOp' = "auto.restored"
                /\ lastReply' = reply
                /\ UNCHANGED <<isClientReady, storage, pollingIntervalRef, pollTimers,
                               sinceDisconnect>>

\* auto-reconnect, lines 287-290: another address, or none
AutoMismatch ==
    \E op \in Pending("auto.getAddress") :
        \E reply \in AddressReplies :
            /\ OrNull(reply) # op.arg
            /\ StartPolling(op, AutoMismatchState(state, op.arg), "auto.mismatch", reply)

\* auto-reconnect, lines 291-295: getAddress() rejected
AutoThrows ==
    \E op \in Pending("auto.getAddress") :
        StartPolling(op, AutoLockedState(state), "auto.threw", Throws)

\* disconnect()
Disconnect ==
    LET stopped == StopPollingTimers(pollingIntervalRef, pollTimers)
    IN  /\ isClientReady
        /\ pollingIntervalRef' = stopped.ref
        /\ pollTimers' = stopped.timers
        /\ state' = DisconnectState(state)
        /\ storage' = NoMarker
        /\ monitorTimer' = MonitorEffect(isClientReady, state')
        /\ sinceDisconnect' = TRUE
        /\ lastOp' = "disconnect"
        /\ lastReply' = Null
        /\ UNCHANGED <<isClientReady, inflight>>

-----------------------------------------------------------------------------
(* PortfolioMetrics: the contract statistics fetch *)

InitialRetries == 3
InitialDelay == 1000

NullStats == [scoreTenths |-> 0, transactions |-> 0, source |-> "null"]
FallbackStats == [scoreTenths |-> 87, transactions |-> 142, source |-> "fallback"]
ChainStats == [scoreTenths |-> 91, transactions |-> 7, source |-> "blockchain"]

MsgStatsFailed == <<"Failed to load contract statistics after multiple attempts">>

NoTimer == [set |-> FALSE, due |-> 0, retries |-> 0, delay |-> 0]

\* what fetch('/api/portfolio/stats') and response.json() can produce: a
\* rejected fetch, a body that is no JSON, or the route's {success, data}
StatsResponses ==
    {[kind |-> "networkError", success |-> FALSE, data |-> NullStats],
     [kind |-> "invalidJson", success |-> FALSE, data |-> NullStats],
     [kind |-> "json", success |-> FALSE, data |-> FallbackStats],
     [kind |-> "json", success |-> TRUE, data |-> NullStats],
     [kind |-> "json", success |-> TRUE, data |-> FallbackStats],
     [kind |-> "json", success |-> TRUE, data |-> ChainStats]}

\* line 37: result.success && result.data
StatsAccepted(resp) == resp.kind = "json" /\ resp.success /\ resp.data # NullStats

\* a retry delay that grows by a second instead of doubling
RetryDelayLinear(delay) == delay + 1000

\* line 47: the arguments of the retry and the delay of its timer
RetryDelay(delay) == delay * 2

RetryCall(retries, delay) == [retries |-> retries - 1, delay |-> RetryDelay(delay)]

\* line 46
MayRetry(retries) == retries > 0

NowMs == clock * 1000

StatsInit ==
    /\ contractStats = NullStats
    /\ statsLoading = TRUE
    /\ statsError = Null
    /\ statsPc = "unmounted"
    /\ retryTimer = NoTimer
    /\ clock = 0
    /\ attemptStarted = <<>>
    /\ attemptEnded = <<>>
    /\ scheduled = <<>>

\* fetchContractStats(retries, delay) up to its await, lines 30-34
StatsAttempt(retries, delay) ==
    /\ statsLoading' = TRUE
    /\ statsError' = Null
    /\ statsPc' = "fetching"
    /\ retryTimer' = [set |-> FALSE, due |-> 0, retries |-> retries, delay |-> delay]
    /\ attemptStarted' = Append(attemptStarted, NowMs)
    /\ UNCHANGED <<contractStats, clock, attemptEnded, scheduled>>

\* the mount effect, lines 24-26: fetchContractStats() with its defaults
StatsMount ==
    /\ statsPc = "unmounted"
    /\ StatsAttempt(InitialRetries, InitialDelay)

\* lines 37-40
StatsLoaded ==
    /\ statsPc = "fetching"
    /\ \E resp \in StatsResponses :
        /\ StatsAccepted(resp)
        /\ contractStats' = resp.data
    /\ statsLoading' = FALSE
    /\ statsPc' = "loaded"
    /\ UNCHANGED <<statsError, retryTimer, clock, attemptStarted, attemptEnded, scheduled>>

\* lines 44-47: a failed attempt with retries left sets the timer
StatsRetryScheduled ==
    /\ statsPc = "fetching"
    /\ \E resp \in StatsResponses : ~StatsAccepted(resp)
    /\ MayRetry(retryTimer.retries)
    /\ LET next == RetryCall(retryTimer.retries, retryTimer.delay)
       IN  retryTimer' = [set |-> TRUE, due |-> NowMs + retryTimer.delay,
                          retries |-> next.retries, delay |-> next.delay]
    /\ scheduled' = Append(scheduled, retryTimer.delay)
    /\ attemptEnded' = Append(attemptEnded, NowMs)
    /\ statsPc' = "waiting"
    /\ UNCHANGED <<contractStats, statsLoading, statsError, clock, attemptStarted>>

\* lines 48-51: a failed attempt with no retries left
StatsGaveUp ==
    /\ statsPc = "fetching"
    /\ \E resp \in StatsResponses : ~StatsAccepted(resp)
    /\ ~MayRetry(retryTimer.retries)
    /\ statsError' = MsgStatsFailed
    /\ statsLoading' = FALSE
    /\ attemptEnded' = Append(attemptEnded, NowMs)
    /\ statsPc' = "failed"
    /\ UNCHANGED <<contractStats, retryTimer, clock, attemptStarted, scheduled>>

\* the timer of line 47 fires, no earlier than its delay
StatsRetryFires ==
    /\ statsPc = "waiting"
    /\ retryTimer.set
    /\ NowMs >= retryTimer.due
    /\ StatsAttempt(retryTimer.retries, retryTimer.delay)

\* a second passes
ClockTick ==
    /\ statsPc # "unmounted"
    /\ clock < MaxClock
    /\ clock' = clock + 1
    /\ UNCHANGED <<contractStats, statsLoading, statsError, statsPc, retryTimer,
                   attemptStarted, attemptEnded, scheduled>>

-----------------------------------------------------------------------------
(* The server: lib/stellarService and the three API routes.                *)
(*                                                                         *)
(* A handler shares no mutable state with another one, so the model serves *)
(* one exchange at a time; the handler stops at each await and the         *)
(* environment (Soroban RPC, ledger) chooses the answer.  Server strings   *)
(* are sequences of fragments in which a space is a fragment of its own.   *)
(* The numbers of the statistics payload are held in tenths: 8.7 is 87 and *)
(* 142 is 1420.                                                            *)

\* score clamping of the contract: the stored score is 0..1000
MaxStoredScore == 1000

\* JavaScript values whose type the code tests
JsNumber(n) == [type |-> "number", num |-> n, str |-> EmptyString]
JsBigInt(n) == [type |-> "bigint", num |-> n, str |-> EmptyString]
JsString(s) == [type |-> "string", num |-> 0, str |-> s]
Undefined == [type |-> "undefined", num |-> 0, str |-> EmptyString]

\* !v
Falsy(v) ==
    \/ v.type = "undefined"
    \/ v.type = "string" /\ v.str = EmptyString
    \/ v.type \in {"number", "bigint"} /\ v.num = 0

\* a || b
Or(a, b) == IF Falsy(a) THEN b ELSE a

\* a ?? b
Nullish(a, b) == IF a.type = "undefined" THEN b ELSE a

\* an integer as a number of the payload
Num(n) == 10 * n

\* the score taken as the contract stores it
NotDivided(x) == x

\* x / 10
DivideBy10(x) == x \div 10

\* Math.floor(x)
Floor(x) == (x \div 10) * 10

\* { ...a, ...b }
Spread(a, b) ==
    [k \in DOMAIN a \cup DOMAIN b |-> IF k \in DOMAIN b THEN b[k] ELSE a[k]]

\* s.includes(sub)
IncludesText(s, sub) ==
    \E i \in 1..(Len(s) - Len(sub) + 1) : SubSeq(s, i, i + Len(sub) - 1) = sub

\* toLowerCase of one fragment
LowerFragment(f) ==
    CASE f = "Unreachable" -> "unreachable"
      [] f = "UNREACHABLE" -> "unreachable"
      [] f = "CodeReached" -> "codereached"
      [] f = "VM" -> "vm"
      [] f = "Simulation" -> "simulation"
      [] f = "HostError" -> "hosterror"
      [] OTHER -> f

\* the string as it is
KeepCase(s) == s

\* s.toLowerCase()
ToLowerCase(s) == [i \in DOMAIN s |-> LowerFragment(s[i])]

ContractAddress == <<"C", "D", "L", "Z">>
ContractIds == {EmptyString, <<" ">>, ContractAddress}

\* !CONTRACT_ID || CONTRACT_ID.trim() === '', negated
Configured(id) == Truthy(id) /\ Trim(id) # EmptyString

LoadTime == <<"loadTime">>
RequestTime == <<"requestTime">>
NoStore == "Cache-Control" :> "no-store, max-age=0"
NoHeaders == <<>>

\* what request.json() yields, and the fields the routes read
Body(json, walletAddress, signedXDR, signedXdr) ==
    [json |-> json, walletAddress |-> walletAddress,
     signedXDR |-> signedXDR, signedXdr |-> signedXdr]

NoBody == Body("none", Undefined, Undefined, Undefined)
NoCall == <<>>
NoResult == [none |-> TRUE]
NoResponse == [status |-> 0, headers |-> NoHeaders, body |-> [none |-> TRUE]]

\* the exchange ends: the route returns its NextResponse
Respond(result, resp) ==
    /\ srvPc' = "responded"
    /\ srvResult' = result
    /\ response' = resp
    /\ srvTimer' = FALSE

\* the awaits that stand in a Promise.race with the timeout: the simulation
\* of lines 425-430 and no other
Raced(pc) == pc = "getMetrics"

\* the handler stops at an await
Await(pc) ==
    /\ srvPc' = pc
    /\ srvTimer' = Raced(pc)
    /\ UNCHANGED <<srvResult, response>>

\* a request arrives: the server keeps nothing of the previous exchange
Arrives(route, body) ==
    /\ srvPc \in {"idle", "responded"}
    /\ srvRequest' = [route |-> route, body |-> body]
    /\ srvCall' = NoCall

\* the handler of a new exchange stops at its first await
Start(pc) ==
    /\ srvPc' = pc
    /\ srvTimer' = Raced(pc)
    /\ srvResult' = NoResult
    /\ response' = NoResponse

ServerIdle ==
    /\ contractId = ContractAddress
    /\ srvPc = "idle"
    /\ srvRequest = [route |-> "none", body |-> NoBody]
    /\ srvCall = NoCall
    /\ srvResult = NoResult
    /\ response = NoResponse
    /\ srvTimer = FALSE

-----------------------------------------------------------------------------
(* GET /api/portfolio/stats *)

MaxTrades == 1

FALLBACK_DATA ==
    [score |-> 87, transactions |-> 1420, timestamp |-> LoadTime, source |-> "fallback"]

\* the defaults without the transaction count
DefaultStatsScoreOnly == [score |-> 87]

\* parseContractResult, line 533
DefaultStats == [score |-> 87, transactions |-> 1420]

\* a return value of the contract: its ScVal arm, what scValToNative makes of
\* it, the elements of a vector, the values of a map under 'score' and
\* 'transactions'
ScVal(scv, native, items, score, transactions) ==
    [scv |-> scv, native |-> native, items |-> items,
     score |-> score, transactions |-> transactions]

NoRetval == ScVal("none", "other", <<>>, Undefined, Undefined)

Trades == 0..MaxTrades \cup {142}
ScoreEntries ==
    {JsNumber(s) : s \in 0..MaxStoredScore} \cup {JsBigInt(870), JsString(<<"870">>)}
TradeEntries == {JsNumber(t) : t \in Trades} \cup {JsBigInt(142)}
MapEntries == {JsNumber(87), JsNumber(870), JsBigInt(870), Undefined}

Retvals ==
    {ScVal("scvVec", "array", <<s, t, JsBigInt(0), JsString(GA)>>, Undefined, Undefined) :
        s \in ScoreEntries, t \in TradeEntries}
    \cup {ScVal("scvVec", "array", <<s>>, Undefined, Undefined) : s \in MapEntries}
    \cup {ScVal("scvMap", n, <<>>, s, t) :
            n \in {"map", "other", "throws"}, s \in MapEntries, t \in MapEntries}
    \cup {ScVal("scvOther", n, <<>>, Undefined, Undefined) : n \in {"other", "throws"}}

\* what the race of simulateTransaction and the timeout settles to
Simulation(kind, retval, error) == [kind |-> kind, retval |-> retval, error |-> error]

MetricsSimulations ==
    {Simulation("success", rv, EmptyString) : rv \in Retvals}
    \cup {Simulation(k, NoRetval, EmptyString) :
            k \in {"successNoRetval", "error", "throws", "timeout"}}

\* parseScValNumber
ParseScValNumber(val) ==
    IF val.type \in {"number", "bigint"} THEN Num(val.num) ELSE 0

\* parseContractResultManual
ParseContractResultManual(resultValue) ==
    IF resultValue.scv = "scvMap"
    THEN [score |-> IF resultValue.score.type = "undefined"
                    THEN 87
                    ELSE ParseScValNumber(resultValue.score),
          transactions |-> IF resultValue.transactions.type = "undefined"
                           THEN 1420
                           ELSE Floor(ParseScValNumber(resultValue.transactions))]
    ELSE DefaultStats

\* parseContractResult
ParseContractResult(resultValue) ==
    CASE resultValue.native = "throws" -> ParseContractResultManual(resultValue)
      [] resultValue.native = "array" /\ Len(resultValue.items) >= 2 ->
            LET score == resultValue.items[1]
                trades == resultValue.items[2]
            IN  [score |-> IF score.type = "number"
                           THEN DivideBy10(Num(score.num))
                           ELSE 87,
                 transactions |-> IF trades.type = "number"
                                  THEN Num(trades.num)
                                  ELSE 1420]
      [] resultValue.native = "map" ->
            LET score == Nullish(resultValue.score, JsNumber(87))
                transactions == Nullish(resultValue.transactions, JsNumber(142))
            IN  [score |-> IF score.type = "number"
                           THEN DivideBy10(Num(score.num))
                           ELSE 87,
                 transactions |-> IF transactions.type = "number"
                                  THEN Num(transactions.num)
                                  ELSE 1420]
      [] OTHER -> DefaultStats

\* getContractStats: what it resolves to when the simulation settled to sim
GetContractStats(id, sim) ==
    IF ~Configured(id) THEN FALLBACK_DATA
    ELSE IF sim.kind \in {"throws", "timeout"} THEN FALLBACK_DATA
    ELSE IF sim.kind = "success"
    THEN Spread(ParseContractResult(sim.retval),
                [timestamp |-> RequestTime, source |-> "blockchain"])
    ELSE FALLBACK_DATA

\* GET of stats/route.ts, given whether getContractStats threw
StatsGET(threw, stats) ==
    IF ~threw
    THEN [status |-> 200, headers |-> NoStore,
          body |-> [success |-> TRUE, data |-> stats]]
    ELSE [status |-> 200, headers |-> NoStore,
          body |-> [success |-> FALSE,
                    error |-> <<"Failed to fetch portfolio statistics">>,
                    data |-> [score |-> 87, transactions |-> 1420,
                              timestamp |-> RequestTime, source |-> "fallback"]]]

\* GET arrives; getContractStats runs to the simulation, or returns at once
\* when the contract ID is not configured
StatsRequest ==
    /\ Arrives("stats", NoBody)
    /\ IF Configured(contractId)
       THEN Start("getMetrics")
       ELSE LET stats == GetContractStats(contractId, Simulation("none", NoRetval, EmptyString))
            IN  Respond(stats, StatsGET(FALSE, stats))
    /\ UNCHANGED contractId

\* the simulation of get_metrics settles before the timer does
StatsSimulated ==
    /\ srvPc = "getMetrics"
    /\ \E sim \in {s \in MetricsSimulations : s.kind # "timeout"} :
          LET stats == GetContractStats(contractId, sim)
          IN  /\ srvCall' = <<sim>>
              /\ Respond(stats, StatsGET(FALSE, stats))
    /\ UNCHANGED <<contractId, srvRequest>>

\* lines 427-429: the timer rejects the race with 'Request timeout' while
\* the simulation has not answered
StatsTimedOut ==
    /\ srvPc = "getMetrics"
    /\ srvTimer
    /\ LET sim == Simulation("timeout", NoRetval, EmptyString)
           stats == GetContractStats(contractId, sim)
       IN  /\ srvCall' = <<sim>>
           /\ Respond(stats, StatsGET(FALSE, stats))
    /\ UNCHANGED <<contractId, srvRequest>>

-----------------------------------------------------------------------------
(* POST /api/portfolio/refine *)

MaxCooldown == 2

COOLDOWN_ACTIVE == <<"COOLDOWN_ACTIVE">>
SIMULATION_FAILED == <<"SIMULATION_FAILED">>
UNKNOWN_ERROR == <<"UNKNOWN_ERROR">>

\* what request.json() can meet: no JSON, the JSON null, an object
RefineBodies ==
    {Body("invalid", Undefined, Undefined, Undefined),
     Body("null", Undefined, Undefined, Undefined)}
    \cup {Body("object", w, Undefined, Undefined) :
            w \in {Undefined, JsString(EmptyString), JsNumber(7), JsString(GA), JsString(XA)}}

\* the message of the error that reading the body throws
BodyError(body) ==
    IF body.json = "null"
    THEN <<"Cannot destructure property of null">>
    ELSE <<"Unexpected end of JSON input">>

\* diagnostics of a failed simulation
DiagTrap == <<"HostError", ":", " ", "Unreachable", "CodeReached">>
DiagVmTrap == <<"VM", " ", "call", " ", "trapped">>
DiagUnreachable == <<"UNREACHABLE">>
DiagLowerTrap == <<"unreachable", "codereached">>
DiagVmCall == <<"vm", " ", "call">>
DiagBalance == <<"insufficient", " ", "balance">>
Diagnostics ==
    {DiagTrap, DiagVmTrap, DiagUnreachable, DiagLowerTrap, DiagVmCall, DiagBalance,
     EmptyString}

\* messages of the exceptions thrown while building or simulating
ThrownTrap == <<"Unreachable", "CodeReached">>
ThrownNetwork == <<"network", " ", "error">>
BuildError == <<"invalid", " ", "argument">>

\* an awaited call of refineStrategy and what it answered
Call(call, kind, error, native) ==
    [call |-> call, kind |-> kind, error |-> error, native |-> native]

\* the answers to the simulation of get_cooldown_remaining; new Contract('')
\* throws
CooldownReads(id) ==
    IF Configured(id)
    THEN {Call("get_cooldown_remaining", "success", EmptyString, JsNumber(n)) :
             n \in 0..MaxCooldown}
         \cup {Call("get_cooldown_remaining", "success", EmptyString, JsBigInt(MaxCooldown))}
         \cup {Call("get_cooldown_remaining", k, EmptyString, Undefined) :
                 k \in {"successNoRetval", "error", "throws"}}
    ELSE {Call("get_cooldown_remaining", "throws", EmptyString, Undefined)}

AccountLoads ==
    {Call("getAccount", k, EmptyString, Undefined) : k \in {"success", "throws"}}

RefineSimulations ==
    {Call("refine_strategy", "success", EmptyString, Undefined)}
    \cup {Call("refine_strategy", "error", d, Undefined) : d \in Diagnostics}
    \cup {Call("refine_strategy", "throws", m, Undefined) :
            m \in {ThrownTrap, DiagLowerTrap, DiagVmTrap, ThrownNetwork}}
    \cup {Call("refine_strategy", "throwsNonError", EmptyString, Undefined)}

\* getCooldownRemaining, lines 834-850
GetCooldownRemaining(read) ==
    IF read.kind = "success" /\ read.native.type = "number"
    THEN read.native.num
    ELSE 0

\* JSON.stringify(simulationResult)
Stringify(sim) == <<"{", "error", ":">> \o sim.error \o <<"}">>

\* the three includes of lines 747-749 and of the route's lines 59-61
Trapped(text) ==
    \/ IncludesText(text, <<"unreachable", "codereached">>)
    \/ IncludesText(text, <<"vm", " ", "call", " ", "trapped">>)
    \/ IncludesText(text, <<"unreachable">>)

\* the results of refineStrategy
CooldownActive(remaining) ==
    [success |-> FALSE,
     message |-> <<"Strategy refinement is on cooldown. Please wait", " ",
                   ToString(remaining), " ", "seconds.">>,
     error |-> COOLDOWN_ACTIVE,
     cooldownRemaining |-> remaining]

UnknownError(message) ==
    [success |-> FALSE, message |-> message, error |-> UNKNOWN_ERROR]

SimulationFailed(simError) ==
    [success |-> FALSE,
     message |-> <<"Simulation", " ", "failed", ":", " ">> \o simError,
     error |-> SIMULATION_FAILED]

SigningRequired ==
    [success |-> TRUE,
     message |-> <<"Transaction simulated successfully. Signing required.">>,
     transactionXDR |-> <<"AAAAAgAAAAA">>]

\* the catch block of refineStrategy for an exception without the trap marker
RefineCatch(thrown) ==
    IF thrown.kind = "throws"
    THEN UnknownError(thrown.error)
    ELSE UnknownError(<<"An unknown error occurred">>)

\* POST of refine/route.ts, lines 31-36
RefineRejected ==
    [status |-> 400, headers |-> NoHeaders,
     body |-> [success |-> FALSE, error |-> <<"Wallet address is required">>]]

\* lines 55-61: the route takes a failed simulation for a cooldown panic
RoutePanic(result) ==
    /\ ~result.success
    /\ result.error = SIMULATION_FAILED
    /\ Trapped(ToLowerCase(result.message))

\* lines 70-80
RefineRecharging(seconds) ==
    [status |-> 400, headers |-> NoStore,
     body |-> [success |-> FALSE, error |-> COOLDOWN_ACTIVE,
               cooldownRemaining |-> seconds,
               message |-> <<"Strategy optimization is recharging">>]]

\* lines 43-52 and 84-90
RefineReturned(result) ==
    IF ~result.success /\ result.error = COOLDOWN_ACTIVE
    THEN [status |-> 400, headers |-> NoStore, body |-> result]
    ELSE [status |-> IF result.success THEN 200 ELSE 400,
          headers |-> NoStore, body |-> result]

\* lines 92-105
RefineCaught(message) ==
    [status |-> 500, headers |-> NoStore,
     body |-> [success |-> FALSE,
               message |-> <<"Failed to process refinement request">>,
               error |-> message]]

\* refineStrategy returns result and the route answers
Finish(result) ==
    IF RoutePanic(result)
    THEN \E read \in CooldownReads(contractId) :
            Respond(result, RefineRecharging(GetCooldownRemaining(read)))
    ELSE Respond(result, RefineReturned(result))

\* POST arrives: the body is read and validated, refineStrategy is called
RefineRequest ==
    /\ \E body \in RefineBodies :
          /\ Arrives("refine", body)
          /\ IF body.json # "object"
             THEN Respond(NoResult, RefineCaught(BodyError(body)))
             ELSE IF Falsy(body.walletAddress) \/ body.walletAddress.type # "string"
             THEN Respond(NoResult, RefineRejected)
             ELSE Start("checkCooldown")
    /\ UNCHANGED contractId

\* refineStrategy, lines 665-682: the first cooldown read settles
RefineCooldownChecked ==
    /\ srvPc = "checkCooldown"
    /\ \E read \in CooldownReads(contractId) :
          LET cooldownRemaining == GetCooldownRemaining(read)
          IN  /\ srvCall' = Append(srvCall, read)
              /\ IF cooldownRemaining > 0
                 THEN Finish(CooldownActive(cooldownRemaining))
                 ELSE IF ~Configured(contractId)
                 THEN Finish(UnknownError(<<"Contract ID not configured">>))
                 ELSE Await("getAccount")
    /\ UNCHANGED <<contractId, srvRequest>>

\* lines 686-714: getAccount settles and the transaction is built
RefineAccountLoaded ==
    /\ srvPc = "getAccount"
    /\ \E load \in AccountLoads, built \in BOOLEAN :
          /\ srvCall' = Append(srvCall, load)
          /\ IF load.kind = "throws"
             THEN Finish(UnknownError(
                     <<"Failed to load wallet account. Please ensure it is funded on Testnet.">>))
             ELSE IF ~built
             THEN Finish(RefineCatch(Call("build", "throws", BuildError, Undefined)))
             ELSE Await("simulate")
    /\ UNCHANGED <<contractId, srvRequest>>

\* lines 719-766 and the catch block: simulateTransaction settles
RefineSimulated ==
    /\ srvPc = "simulate"
    /\ \E sim \in RefineSimulations :
          /\ srvCall' = Append(srvCall, sim)
          /\ CASE sim.kind = "success" -> Finish(SigningRequired)
               [] sim.kind = "error" ->
                      IF Trapped(ToLowerCase(Stringify(sim)))
                      THEN Await("recheckCooldown")
                      ELSE Finish(SimulationFailed(sim.error))
               [] sim.kind = "throws" ->
                      IF IncludesText(sim.error, <<"Unreachable", "CodeReached">>)
                      THEN Await("recheckCooldown")
                      ELSE Finish(RefineCatch(sim))
               [] OTHER -> Finish(RefineCatch(sim))
    /\ UNCHANGED <<contractId, srvRequest>>

\* lines 752-758 and 774-780: the follow-up cooldown read settles
RefineRechecked ==
    /\ srvPc = "recheckCooldown"
    /\ \E read \in CooldownReads(contractId) :
          /\ srvCall' = Append(srvCall, read)
          /\ Finish(CooldownActive(GetCooldownRemaining(read)))
    /\ UNCHANGED <<contractId, srvRequest>>

-----------------------------------------------------------------------------
(* POST /api/transaction/submit *)

PreparedXdr == <<"AAAAAgAAAAA">>
SignedXdr == <<"AAAAAgAAAAB">>
GarbageXdr == <<"not-xdr">>

XdrValues ==
    {Undefined, JsString(EmptyString), JsString(<<" ">>), JsNumber(7),
     JsString(GarbageXdr), JsString(SignedXdr)}

SubmitBodies ==
    {Body("invalid", Undefined, Undefined, Undefined),
     Body("null", Undefined, Undefined, Undefined)}
    \cup {Body("object", Undefined, a, b) : a \in XdrValues, b \in XdrValues}

\* TransactionBuilder.fromXDR succeeds
Deserializes(xdr) == xdr \in {PreparedXdr, SignedXdr}

\* what sendTransaction resolves to, or that it rejects
SendResult(status, errorResultXdr) ==
    [call |-> "sendTransaction", status |-> status, errorResultXdr |-> errorResultXdr]

SendResults ==
    {SendResult(st, Undefined) :
        st \in {"PENDING", "DUPLICATE", "TRY_AGAIN_LATER", "ERROR", "throws"}}
    \cup {SendResult("ERROR", JsString(<<"AAAAAAAAAGT////7AAAAAA==">>))}

\* submitSignedTransaction, lines 864-881: the error it throws before it
\* submits, or the empty string
SubmitPrecheck(signedXDR) ==
    IF signedXDR.type # "string"
    THEN <<"Invalid signedXDR: Expected string, got", " ", signedXDR.type>>
    ELSE IF Trim(signedXDR.str) = EmptyString
    THEN <<"Invalid signedXDR: Empty string">>
    ELSE IF ~Deserializes(Trim(signedXDR.str))
    THEN <<"XDR Read Error">>
    ELSE EmptyString

\* POST of submit/route.ts, lines 10-15
SubmitRejected ==
    [status |-> 400, headers |-> NoHeaders,
     body |-> [success |-> FALSE,
               message |-> <<"Missing or invalid signedXdr (must be a string)">>]]

\* lines 24-37
SubmitReturned(result) ==
    IF result.status = "ERROR"
    THEN [status |-> 400, headers |-> NoHeaders,
          body |-> [success |-> FALSE,
                    message |-> <<"Transaction submission failed">>,
                    error |-> Or(result.errorResultXdr, JsString(<<"Unknown error">>)).str,
                    details |-> result]]
    ELSE [status |-> 200, headers |-> NoHeaders,
          body |-> [success |-> TRUE,
                    message |-> <<"Transaction submitted successfully">>,
                    result |-> result]]

\* lines 39-48
SubmitCaught(message) ==
    [status |-> 500, headers |-> NoHeaders,
     body |-> [success |-> FALSE, message |-> message]]

\* POST arrives: the body is read and validated, submitSignedTransaction runs
\* to sendTransaction
SubmitRequest ==
    /\ \E body \in SubmitBodies :
          /\ Arrives("submit", body)
          /\ IF body.json # "object"
             THEN Respond(NoResult, SubmitCaught(BodyError(body)))
             ELSE LET signedXDR == Or(body.signedXDR, body.signedXdr)
                  IN  IF Falsy(signedXDR) \/ signedXDR.type # "string"
                      THEN Respond(NoResult, SubmitRejected)
                      ELSE IF SubmitPrecheck(signedXDR) # EmptyString
                      THEN Respond(NoResult, SubmitCaught(SubmitPrecheck(signedXDR)))
                      ELSE Start("sendTransaction")
    /\ UNCHANGED contractId

\* sendTransaction settles
SubmitSent ==
    /\ srvPc = "sendTransaction"
    /\ \E result \in SendResults :
          /\ srvCall' = <<result>>
          /\ IF result.status = "throws"
             THEN Respond(NoResult, SubmitCaught(<<"Network Error">>))
             ELSE Respond(result, SubmitReturned(result))
    /\ UNCHANGED <<contractId, srvRequest>>

-----------------------------------------------------------------------------
(* The Home page: handleRefineStrategy.                                    *)
(*                                                                         *)
(* The handler stops at its three awaits (POST /refine, signTransaction,   *)
(* POST /submit); the servers and the wallet extension answer with any of  *)
(* the replies below.  The page sees the wallet through useWallet(): the   *)
(* context value changes between the disconnected and a connected state.   *)

MaxRefines == 2

NoMessage == [type |-> "null", text |-> EmptyString]
Message(type, text) == [type |-> type, text |-> text]

\* cooldownSeconds: null, or a number of seconds.  The number is held in
\* tenths of a second together with the sign of the rounding error that the
\* floating-point subtractions have left in it (-1 below, 0 exact, 1 above).
NoCooldown == [isNull |-> TRUE, seconds |-> 0, residue |-> 0]
Cooldown(seconds) == [isNull |-> FALSE, seconds |-> Num(seconds), residue |-> 0]
Counting(tenths, residue) == [isNull |-> FALSE, seconds |-> tenths, residue |-> residue]

\* cooldownSeconds > 0 and cooldownSeconds <= 0 of lines 39, 42 and 51
Positive(cd) == cd.seconds > 0 \/ (cd.seconds = 0 /\ cd.residue > 0)

\* the tick that leaves the value as it is
TickKeeps(prev) == {prev}

\* Math.max(0, prev - 0.1) of line 46: the difference is rounded to a double
\* next to the exact one, and nothing below zero is kept
TickDecreases(prev) ==
    IF prev.seconds >= 1
    THEN {Counting(prev.seconds - 1, r) : r \in IF prev.seconds = 1 THEN {0, 1} ELSE {-1, 0, 1}}
    ELSE {Counting(0, 0)}

\* the effect of lines 38-55 runs when cooldownSeconds !== null changes: its
\* cleanup clears the interval, its body registers one for a positive value
EffectInterval(prev, next, interval) ==
    IF prev.isNull = next.isNull THEN interval
    ELSE ~next.isNull /\ Positive(next)

\* what `await response.json()` of POST /refine evaluates to, or that the
\* fetch or the parsing throws
RefineReply(kind, success, transactionXDR, error, cooldownRemaining, message) ==
    [kind |-> kind, success |-> success, transactionXDR |-> transactionXDR,
     error |-> error, cooldownRemaining |-> cooldownRemaining, message |-> message]

RefineReplies ==
    {RefineReply("throws", FALSE, Undefined, EmptyString, Undefined, Undefined)}
    \cup {RefineReply("json", TRUE, x, EmptyString, Undefined, JsString(<<"Signing required">>)) :
            x \in {JsString(PreparedXdr), JsString(GarbageXdr), Undefined}}
    \cup {RefineReply("json", FALSE, Undefined, COOLDOWN_ACTIVE, c, JsString(<<"cooldown">>)) :
            c \in {JsNumber(n) : n \in 0..MaxCooldown} \cup {Undefined}}
    \cup {RefineReply("json", FALSE, Undefined, e, Undefined, JsString(<<"failed">>)) :
            e \in {SIMULATION_FAILED, UNKNOWN_ERROR}}
    \cup {RefineReply("json", FALSE, Undefined, <<"Wallet address is required">>,
                      Undefined, Undefined)}

\* what signTransaction resolves to, or that it rejects
SignReply(type, str, signedTxXdr, signedXdr, signedXDR) ==
    [type |-> type, str |-> str, signedTxXdr |-> signedTxXdr,
     signedXdr |-> signedXdr, signedXDR |-> signedXDR]

SignReplies ==
    {SignReply("string", s, Undefined, Undefined, Undefined) : s \in {SignedXdr, EmptyString}}
    \cup {SignReply(t, EmptyString, Undefined, Undefined, Undefined) :
            t \in {"undefined", "throws", "object"}}
    \cup {SignReply("object", EmptyString, JsString(SignedXdr), Undefined, Undefined),
          SignReply("object", EmptyString, JsString(EmptyString), Undefined, Undefined),
          SignReply("object", EmptyString, Undefined, JsString(SignedXdr), Undefined),
          SignReply("object", EmptyString, Undefined, Undefined, JsString(SignedXdr)),
          SignReply("object", EmptyString, JsString(SignedXdr), JsString(PreparedXdr), Undefined),
          SignReply("object", EmptyString, JsString(EmptyString), JsString(SignedXdr),
                    JsString(PreparedXdr)),
          SignReply("object", EmptyString, Undefined, JsString(EmptyString),
                    JsString(SignedXdr))}

\* what POST /submit answers: response.ok and the JSON body, or that the
\* fetch or the parsing throws
SubmitReply(kind, ok, success, message) ==
    [kind |-> kind, ok |-> ok, success |-> success, message |-> message]

SubmitReplies ==
    {SubmitReply("throws", FALSE, FALSE, Undefined),
     SubmitReply("json", TRUE, TRUE, JsString(<<"Transaction submitted successfully">>)),
     SubmitReply("json", FALSE, FALSE, JsString(<<"Transaction submission failed">>)),
     SubmitReply("json", FALSE, FALSE, Undefined),
     SubmitReply("json", TRUE, FALSE, JsString(<<"rejected">>))}

\* a button that can be clicked again while the action runs
RefineButtonIgnoresRefining == ~(~state.isAuthorized \/ ~cooldownSeconds.isNull)

\* the button of lines 318-324 is enabled
RefineButtonEnabled ==
    ~(isRefining \/ ~state.isAuthorized \/ ~cooldownSeconds.isNull)

\* line 99 and the fromXDR of lines 102-105
NeedsSigning(result) == result.success /\ ~Falsy(result.transactionXDR)

\* the three fields tried in the opposite order
FinalXdrLastFieldFirst(signedResult) ==
    CASE signedResult.type = "string" -> JsString(signedResult.str)
      [] signedResult.type = "undefined" -> Undefined
      [] OTHER -> Or(Or(signedResult.signedXDR, signedResult.signedXdr),
                     signedResult.signedTxXdr)

\* lines 124-126
FinalXdr(signedResult) ==
    CASE signedResult.type = "string" -> JsString(signedResult.str)
      [] signedResult.type = "undefined" -> Undefined
      [] OTHER -> Or(Or(signedResult.signedTxXdr, signedResult.signedXdr),
                     signedResult.signedXDR)

\* whatever the wallet returned counts as a signature
AnySignature(signedResult) == TRUE

\* line 130, negated
HasSignature(signedResult) == ~Falsy(FinalXdr(signedResult))

\* the finally block, after the message msg was set
RefineEnds(msg) ==
    /\ refineMessage' = msg
    /\ isRefining' = FALSE
    /\ refinePc' = "idle"

PageInit ==
    /\ isRefining = FALSE
    /\ refineMessage = NoMessage
    /\ cooldownSeconds = NoCooldown
    /\ refinePc = "idle"
    /\ reloadTimer = FALSE
    /\ refineCount = 0
    /\ refineSteps = <<>>
    /\ refineReplies = <<>>
    /\ cooldownInterval = FALSE
    /\ submitBody = Undefined

\* useWallet(): the wallet connects or disconnects
WalletContextChanges ==
    /\ state' \in {InitialState, PollAcquiredState(InitialState, GA)} \ {state}
    /\ UNCHANGED <<isClientReady, storage, pollingIntervalRef, pollTimers, monitorTimer,
                   inflight, sinceDisconnect, lastOp, lastReply>>
    /\ UNCHANGED pageVars

\* the user clicks Refine Strategy: lines 67-94
RefineClick ==
    /\ RefineButtonEnabled
    /\ refineCount < MaxRefines
    /\ refineCount' = refineCount + 1
    /\ cooldownSeconds' = NoCooldown
    /\ cooldownInterval' = EffectInterval(cooldownSeconds, NoCooldown, cooldownInterval)
    /\ refineReplies' = <<>>
    /\ submitBody' = Undefined
    /\ IF ~state.isAuthorized \/ ~Truthy(state.address)
       THEN /\ refineMessage' = Message("error", <<"Please connect your wallet first">>)
            /\ refineSteps' = <<>>
            /\ UNCHANGED <<isRefining, refinePc>>
       ELSE /\ refineMessage' = NoMessage
            /\ isRefining' = TRUE
            /\ refineSteps' = <<"refine">>
            /\ refinePc' = "refine"
    /\ UNCHANGED <<reloadTimer, walletVars>>

\* lines 96-105 and 181-231: POST /refine answers
RefineReplied ==
    /\ refinePc = "refine"
    /\ \E result \in RefineReplies :
          /\ refineReplies' = Append(refineReplies, result)
          /\ CASE result.kind = "throws" ->
                    /\ RefineEnds(Message("error", <<"Network error. Please try again.">>))
                    /\ UNCHANGED <<cooldownSeconds, reloadTimer, refineSteps>>
               [] result.kind = "json" /\ NeedsSigning(result) ->
                    IF Deserializes(result.transactionXDR.str)
                    THEN /\ refineMessage' =
                              Message("success", <<"Please sign the transaction in your wallet...">>)
                         /\ refineSteps' = Append(refineSteps, "sign")
                         /\ refinePc' = "sign"
                         /\ UNCHANGED <<isRefining, cooldownSeconds, reloadTimer>>
                    ELSE /\ RefineEnds(Message("error", <<"XDR Read Error">>))
                         /\ UNCHANGED <<cooldownSeconds, reloadTimer, refineSteps>>
               [] result.kind = "json" /\ ~NeedsSigning(result) /\ result.success ->
                    /\ RefineEnds(Message("success",
                          Or(result.message, JsString(<<"Strategy refined successfully!">>)).str))
                    /\ reloadTimer' = TRUE
                    /\ UNCHANGED <<cooldownSeconds, refineSteps>>
               [] OTHER ->
                    IF result.error = COOLDOWN_ACTIVE
                    THEN LET remaining == Or(result.cooldownRemaining, JsNumber(0)).num
                         IN  /\ IF remaining > 0
                                THEN /\ cooldownSeconds' = Cooldown(remaining)
                                     /\ RefineEnds(Message("cooldown",
                                           <<"Strategy optimization is recharging">>))
                                ELSE /\ cooldownSeconds' = Cooldown(2)   \* 2.0
                                     /\ RefineEnds(Message("cooldown",
                                           <<"Strategy stabilizing...">>))
                             /\ UNCHANGED <<reloadTimer, refineSteps>>
                    ELSE /\ RefineEnds(Message("error",
                               Or(result.message, JsString(<<"Failed to refine strategy">>)).str))
                         /\ UNCHANGED <<cooldownSeconds, reloadTimer, refineSteps>>
    /\ cooldownInterval' = EffectInterval(cooldownSeconds, cooldownSeconds', cooldownInterval)
    /\ UNCHANGED <<refineCount, submitBody, walletVars>>

\* lines 116-147 and 173-180: signTransaction settles
SignReplied ==
    /\ refinePc = "sign"
    /\ \E signedResult \in SignReplies :
          /\ refineReplies' = Append(refineReplies, signedResult)
          /\ IF signedResult.type = "throws"
             THEN /\ RefineEnds(Message("error", <<"User declined access">>))
                  /\ UNCHANGED <<refineSteps, submitBody>>
             ELSE IF ~HasSignature(signedResult)
             THEN /\ RefineEnds(Message("error", <<"Wallet returned an empty signature">>))
                  /\ UNCHANGED <<refineSteps, submitBody>>
             ELSE /\ refineMessage' =
                       Message("success", <<"Submitting transaction to network...">>)
                  /\ refineSteps' = Append(refineSteps, "submit")
                  /\ submitBody' = FinalXdr(signedResult)
                  /\ refinePc' = "submit"
                  /\ UNCHANGED isRefining
    /\ UNCHANGED <<cooldownSeconds, cooldownInterval, reloadTimer, refineCount, walletVars>>

\* lines 149-180: POST /submit answers
SubmitReplied ==
    /\ refinePc = "submit"
    /\ \E submitResult \in SubmitReplies :
          /\ refineReplies' = Append(refineReplies, submitResult)
          /\ IF submitResult.kind = "throws"
             THEN /\ RefineEnds(Message("error", <<"Failed to fetch">>))
                  /\ UNCHANGED reloadTimer
             ELSE IF submitResult.ok /\ submitResult.success
             THEN /\ RefineEnds(Message("success",
                        <<"Strategy refined successfully! Transaction verified.">>))
                  /\ reloadTimer' = TRUE
             ELSE /\ RefineEnds(Message("error",
                        Or(submitResult.message, JsString(<<"Error: status">>)).str))
                  /\ UNCHANGED reloadTimer
    /\ UNCHANGED <<cooldownSeconds, cooldownInterval, submitBody, refineSteps, refineCount,
                   walletVars>>

\* lines 159 and 188: window.location.reload() mounts the page anew
Reload ==
    /\ reloadTimer
    /\ isRefining' = FALSE
    /\ refineMessage' = NoMessage
    /\ cooldownSeconds' = NoCooldown
    /\ refinePc' = "idle"
    /\ reloadTimer' = FALSE
    /\ refineSteps' = <<>>
    /\ refineReplies' = <<>>
    /\ cooldownInterval' = FALSE
    /\ submitBody' = Undefined
    /\ UNCHANGED <<refineCount, walletVars>>

\* lines 40-48: the interval of the countdown effect fires
CooldownTick ==
    /\ cooldownInterval
    /\ IF cooldownSeconds.isNull \/ ~Positive(cooldownSeconds)
       THEN /\ refineMessage' = NoMessage
            /\ cooldownSeconds' = NoCooldown
       ELSE /\ cooldownSeconds' \in TickDecreases(cooldownSeconds)
            /\ UNCHANGED refineMessage
    /\ cooldownInterval' = EffectInterval(cooldownSeconds, cooldownSeconds', cooldownInterval)
    /\ UNCHANGED <<isRefining, refinePc, reloadTimer, refineCount, refineSteps, refineReplies,
                   submitBody, walletVars>>

-----------------------------------------------------------------------------
(* Specifications *)

Init == WalletInit /\ StatsInit /\ ServerIdle /\ PageInit

Next ==
    \/ Mount /\ UNCHANGED <<statsVars, serverVars, pageVars>>
    \/ Connect /\ UNCHANGED <<statsVars, serverVars, pageVars>>
    \/ RefreshConnection /\ UNCHANGED <<statsVars, serverVars, pageVars>>
    \/ ConnectExtensionPresent /\ UNCHANGED <<statsVars, serverVars, pageVars>>
    \/ ConnectNotInstalled /\ UNCHANGED <<statsVars, serverVars, pageVars>>
    \/ ConnectThrows /\ UNCHANGED <<statsVars, serverVars, pageVars>>
    \/ ConnectAccessGranted /\ UNCHANGED <<statsVars, serverVars, pageVars>>
    \/ PollTick /\ UNCHANGED <<statsVars, serverVars, pageVars>>
    \/ PollAcquired /\ UNCHANGED <<statsVars, serverVars, pageVars>>
    \/ PollNoAddress /\ UNCHANGED <<statsVars, serverVars, pageVars>>
    \/ LoadAccountSettled /\ UNCHANGED <<statsVars, serverVars, pageVars>>
    \/ MonitorTick /\ UNCHANGED <<statsVars, serverVars, pageVars>>
    \/ MonitorIsConnected /\ UNCHANGED <<statsVars, serverVars, pageVars>>
    \/ MonitorGetAddress /\ UNCHANGED <<statsVars, serverVars, pageVars>>
    \/ MonitorThrows /\ UNCHANGED <<statsVars, serverVars, pageVars>>
    \/ AutoRestored /\ UNCHANGED <<statsVars, serverVars, pageVars>>
    \/ AutoMismatch /\ UNCHANGED <<statsVars, serverVars, pageVars>>
    \/ AutoThrows /\ UNCHANGED <<statsVars, serverVars, pageVars>>
    \/ Disconnect /\ UNCHANGED <<statsVars, serverVars, pageVars>>

\* the wallet controller
Spec == Init /\ [][Next]_vars

StatsNext ==
    \/ StatsMount /\ UNCHANGED <<walletVars, serverVars, pageVars>>
    \/ StatsLoaded /\ UNCHANGED <<walletVars, serverVars, pageVars>>
    \/ StatsRetryScheduled /\ UNCHANGED <<walletVars, serverVars, pageVars>>
    \/ StatsGaveUp /\ UNCHANGED <<walletVars, serverVars, pageVars>>
    \/ StatsRetryFires /\ UNCHANGED <<walletVars, serverVars, pageVars>>
    \/ ClockTick /\ UNCHANGED <<walletVars, serverVars, pageVars>>

\* the statistics fetch of PortfolioMetrics
SpecStats == Init /\ [][StatsNext]_vars

\* any deployment: the contract ID configured or not
ServerInit ==
    /\ WalletInit /\ storage = NoMarker
    /\ StatsInit
    /\ contractId \in ContractIds
    /\ srvPc = "idle"
    /\ srvRequest = [route |-> "none", body |-> NoBody]
    /\ srvCall = NoCall
    /\ srvResult = NoResult
    /\ response = NoResponse
    /\ srvTimer = FALSE
    /\ PageInit

ServerNext ==
    \/ StatsRequest /\ UNCHANGED <<walletVars, statsVars, pageVars>>
    \/ StatsSimulated /\ UNCHANGED <<walletVars, statsVars, pageVars>>
    \/ StatsTimedOut /\ UNCHANGED <<walletVars, statsVars, pageVars>>
    \/ RefineRequest /\ UNCHANGED <<walletVars, statsVars, pageVars>>
    \/ RefineCooldownChecked /\ UNCHANGED <<walletVars, statsVars, pageVars>>
    \/ RefineAccountLoaded /\ UNCHANGED <<walletVars, statsVars, pageVars>>
    \/ RefineSimulated /\ UNCHANGED <<walletVars, statsVars, pageVars>>
    \/ RefineRechecked /\ UNCHANGED <<walletVars, statsVars, pageVars>>
    \/ SubmitRequest /\ UNCHANGED <<walletVars, statsVars, pageVars>>
    \/ SubmitSent /\ UNCHANGED <<walletVars, statsVars, pageVars>>

\* the API routes
SpecServer == ServerInit /\ [][ServerNext]_vars


\* the page is loaded in a browser that holds no marker
PageStart == Init /\ storage = NoMarker

PageNext ==
    \/ WalletContextChanges /\ UNCHANGED <<statsVars, serverVars>>
    \/ RefineClick /\ UNCHANGED <<statsVars, serverVars>>
    \/ RefineReplied /\ UNCHANGED <<statsVars, serverVars>>
    \/ SignReplied /\ UNCHANGED <<statsVars, serverVars>>
    \/ SubmitReplied /\ UNCHANGED <<statsVars, serverVars>>
    \/ Reload /\ UNCHANGED <<statsVars, serverVars>>
    \/ CooldownTick /\ UNCHANGED <<statsVars, serverVars>>

\* the refine action of the Home page
SpecRefine == PageStart /\ [][PageNext]_vars

\* the browser fires every registered timer: the countdown interval and the
\* reload timeout
SpecRefineFair ==
    /\ PageStart
    /\ [][PageNext]_vars
    /\ WF_vars(CooldownTick /\ UNCHANGED <<statsVars, serverVars>>)
    /\ WF_vars(Reload /\ UNCHANGED <<statsVars, serverVars>>)

-----------------------------------------------------------------------------
(* Properties of the wallet controller, checked under Spec *)

PollOp == Op("poll.getAddress", Null, FALSE)
RequestAccessOp == Op("connect.requestAccess", Null, FALSE)

PollingStarts == {"connect.startPolling", "auto.mismatch", "auto.threw"}
ConnectFailures == {"connect.notInstalled", "connect.isConnectedThrew", "connect.accessRefused"}

\* C1: at most one address-polling interval timer is registered in any
\* reachable state, it is the one pollingIntervalRef holds, and every start of
\* polling (connect, refreshConnection, auto-reconnect) leaves exactly one.
C1_AtMostOnePollingTimer ==
    /\ Cardinality(pollTimers) <= 1
    /\ pollTimers = IF pollingIntervalRef = 0 THEN {} ELSE {pollingIntervalRef}
    /\ lastOp \in PollingStarts => Cardinality(pollTimers) = 1

\* two starts of polling in succession: the immediate pollForAddress() of both
\* is still outstanding, and one timer is registered
C1_Witness ==
    /\ lastOp = "connect.startPolling"
    /\ CopiesIn(PollOp, inflight) = 2
    /\ Cardinality(pollTimers) = 1

\* C2 (as claimed): after disconnect() and until connect() is invoked again,
\* address, isAuthorized, balance, error and isWalletLocked keep their cleared
\* values, whatever call was outstanding when disconnect() ran.
C2_NoUpdateAfterDisconnect ==
    sinceDisconnect =>
        /\ state.address = Null
        /\ ~state.isAuthorized
        /\ state.balance = Null
        /\ state.error = Null
        /\ ~state.isWalletLocked

\* C3: right after disconnect(), whatever the state before, the wallet state is
\* the cleared one, the marker is removed, no polling timer is registered and
\* the monitor timer is cancelled.
C3_DisconnectClears ==
    lastOp = "disconnect" =>
        /\ state.address = Null
        /\ ~state.isAuthorized
        /\ state.balance = Null
        /\ ~state.isLoading
        /\ state.error = Null
        /\ ~state.isWalletLocked
        /\ ~storage.present
        /\ pollTimers = {}
        /\ pollingIntervalRef = 0
        /\ ~monitorTimer

\* disconnect() ran while a poll's getAddress() was outstanding
C3_Witness ==
    /\ lastOp = "disconnect"
    /\ BagIn(PollOp, inflight)
    /\ pollTimers = {}

\* C4: isAuthorized = true implies a non-null (and non-empty) address.
C4_AuthorizedHasAddress == state.isAuthorized => Truthy(state.address)

\* authorized again after a disconnect(), by a call that was outstanding
C4_Witness == state.isAuthorized /\ state.address = GB /\ sinceDisconnect

\* C5 (as claimed): once disconnect() removed the marker it stays absent until
\* connect() is invoked again.
C5_MarkerAbsentAfterDisconnect == sinceDisconnect => ~storage.present

\* C6 (as claimed): exactly one of the panels locked, disconnected, loading,
\* connected is rendered for every reachable wallet state.
C6_ExactlyOnePanel == Cardinality(RenderedPanels(state)) = 1

\* C7: mounting with a marker for address A queries getAddress() only (no
\* requestAccess()); a reply equal to A restores address A, isAuthorized,
\* isWalletLocked = false, starts a balance fetch and leaves the polling timer
\* alone; any other reply starts polling; a rejected query sets isWalletLocked
\* and starts polling; mounting without a marker queries nothing and leaves the
\* state disconnected.
C7_SilentVerification ==
    [][ /\ lastOp' = "mount" =>
            /\ state' = InitialState
            /\ pollTimers' = {}
            /\ inflight' = IF storage.present
                           THEN SetToBag({Op("auto.getAddress", storage.address, FALSE)})
                           ELSE EmptyBag
        /\ lastOp' \in {"auto.restored", "auto.mismatch", "auto.threw"} =>
            \E op \in Pending("auto.getAddress") :
                /\ CopiesIn(RequestAccessOp, inflight') = CopiesIn(RequestAccessOp, inflight)
                /\ lastReply' = op.arg =>
                    /\ state' = [state EXCEPT !.address = op.arg, !.isAuthorized = TRUE,
                                              !.isWalletLocked = FALSE]
                    /\ BagIn(Op("loadAccount", op.arg, FALSE), inflight')
                    /\ pollTimers' = pollTimers
                    /\ pollingIntervalRef' = pollingIntervalRef
                    /\ CopiesIn(PollOp, inflight') = CopiesIn(PollOp, inflight)
                /\ lastReply' \in AddressReplies \ {op.arg} =>
                    /\ state' = state
                    /\ pollTimers' = {pollingIntervalRef'}
                    /\ CopiesIn(PollOp, inflight') = CopiesIn(PollOp, inflight) + 1
                /\ lastReply' = Throws =>
                    /\ state' = [state EXCEPT !.isWalletLocked = TRUE]
                    /\ pollTimers' = {pollingIntervalRef'}
                    /\ CopiesIn(PollOp, inflight') = CopiesIn(PollOp, inflight) + 1
      ]_vars

\* the saved address was restored without a polling timer
C7_Witness ==
    /\ lastOp = "auto.restored"
    /\ lastReply = GA
    /\ state.address = GA
    /\ state.isAuthorized
    /\ pollTimers = {}
    /\ BagIn(Op("loadAccount", GA, FALSE), inflight)

\* C8: connect() starts polling only once isConnected() answered true and
\* requestAccess() resolved; with the extension absent requestAccess() is not
\* called; after either failure no polling timer is registered, isLoading is
\* false, error is a message ('Freighter wallet is not installed' when absent)
\* and address and isAuthorized are as before.
C8_ConnectGuards ==
    [][ /\ lastOp' \in {"connect", "refreshConnection", "connect.requestAccess"} =>
            /\ pollTimers' = pollTimers
            /\ CopiesIn(PollOp, inflight') = CopiesIn(PollOp, inflight)
        /\ lastOp' = "connect.startPolling" => Pending("connect.requestAccess") # {}
        /\ CopiesIn(RequestAccessOp, inflight') > CopiesIn(RequestAccessOp, inflight) =>
            /\ lastOp' = "connect.requestAccess"
            /\ lastReply' = <<"true">>
            /\ Pending("connect.isConnected") # {}
        /\ lastOp' = "connect.notInstalled" =>
            /\ lastReply' = <<"false">>
            /\ state'.error = <<"Freighter", "wallet", "is", "not", "installed">>
        /\ lastOp' \in ConnectFailures =>
            /\ pollTimers' = {}
            /\ pollingIntervalRef' = 0
            /\ ~state'.isLoading
            /\ Truthy(state'.error)
            /\ state'.address = state.address
            /\ state'.isAuthorized = state.isAuthorized
      ]_vars

\* connect() failed for an absent extension while the wallet was connected
C8_Witness ==
    /\ lastOp = "connect.notInstalled"
    /\ state.error = MsgNotInstalled
    /\ ~state.isLoading
    /\ state.isAuthorized
    /\ pollTimers = {}

\* C9: a ledger lookup that fails, with 404 or with any other error, sets
\* balance to '10000.00' and changes nothing else of the wallet state.
C9_BalanceFallback ==
    [][ (lastOp' = "fetchBalance" /\ lastReply' \in {<<"notFound">>, <<"otherError">>}) =>
            state' = [state EXCEPT !.balance = <<"10000.00">>]
      ]_vars

\* a lookup failed with an error other than 404 while an error was displayed
C9_Witness ==
    /\ lastOp = "fetchBalance"
    /\ lastReply = <<"otherError">>
    /\ state.balance = <<"10000.00">>
    /\ state.error = MsgWalletLocked

-----------------------------------------------------------------------------
(* Properties of the statistics fetch, checked under SpecStats *)

ExpectedDelays == <<1000, 2000, 4000>>

\* C10: one initial attempt and, while attempts fail, exactly 3 retries whose
\* timers are set to 1000, 2000 and 4000 ms; the 4th failure sets statsError and
\* clears statsLoading with no timer pending; while a retry is pending
\* statsLoading is true and statsError null; a successful attempt stores the
\* stats, clears statsLoading and sets no timer.
C10_StatsRetry ==
    /\ Len(attemptStarted) <= 4
    /\ Len(scheduled) <= 3
    /\ \A i \in 1..Len(scheduled) : scheduled[i] = ExpectedDelays[i]
    /\ \A i \in 2..Len(attemptStarted) :
           attemptStarted[i] >= attemptEnded[i - 1] + ExpectedDelays[i - 1]
    /\ statsPc \in {"fetching", "loaded", "failed"} =>
           Len(attemptStarted) = Len(scheduled) + 1
    /\ statsPc = "waiting" =>
           /\ statsLoading
           /\ statsError = Null
           /\ retryTimer.set
           /\ Len(attemptStarted) = Len(scheduled)
    /\ statsPc = "failed" =>
           /\ Len(attemptStarted) = 4
           /\ scheduled = ExpectedDelays
           /\ statsError # Null
           /\ ~statsLoading
           /\ ~retryTimer.set
    /\ statsPc = "loaded" =>
           /\ contractStats # NullStats
           /\ ~statsLoading
           /\ statsError = Null
           /\ ~retryTimer.set
    /\ statsError # Null => statsPc = "failed"

\* the fourth attempt failed
C10_Witness ==
    /\ statsPc = "failed"
    /\ Len(attemptStarted) = 4
    /\ statsError = MsgStatsFailed

-----------------------------------------------------------------------------
(* Properties of the API routes, checked under SpecServer *)

StatsServed == srvRequest.route = "stats" /\ srvPc = "responded"

\* C11: GET /stats answers with status 200 whatever happened to the contract
\* read (contract ID not configured, RPC error, timeout, failed simulation,
\* missing return value, success), and the data object of every response has
\* all of score, transactions, timestamp and source.
C11_StatsAlways200 ==
    StatsServed =>
        /\ response.status = 200
        /\ {"score", "transactions", "timestamp", "source"}
               \subseteq DOMAIN response.body.data

\* the read timed out and the route answered
C11_Witness ==
    /\ StatsServed
    /\ srvCall # NoCall
    /\ srvCall[1].kind = "timeout"
    /\ response.status = 200
    /\ response.body.data.source = "fallback"

\* the simulation of the exchange succeeded with return value rv
ReadReturned(rv) ==
    /\ srvCall # NoCall
    /\ srvCall[1].kind = "success"
    /\ srvCall[1].retval = rv

ScoreDecoded(rv) ==
    \/ rv.native = "array" /\ Len(rv.items) >= 2 /\ rv.items[1].type = "number"
    \/ rv.native = "map" /\ rv.score.type = "number"
    \/ rv.native = "throws" /\ rv.scv = "scvMap" /\ rv.score.type \in {"number", "bigint"}

TransactionsDecoded(rv) ==
    \/ rv.native = "array" /\ Len(rv.items) >= 2 /\ rv.items[2].type = "number"
    \/ rv.native = "map" /\ rv.transactions.type = "number"
    \/ rv.native = "throws" /\ rv.scv = "scvMap"
          /\ rv.transactions.type \in {"number", "bigint"}

\* C12: the source field of every stats payload tells decoded data from
\* substituted data: it is 'blockchain' only if both score and transactions
\* were decoded from the contract's return value, and 'fallback' whenever one
\* of them is a substituted constant, whatever the shape of the return value.
C12_SourceDistinguishes ==
    StatsServed =>
        LET decoded == \E rv \in Retvals :
                          ReadReturned(rv) /\ ScoreDecoded(rv) /\ TransactionsDecoded(rv)
        IN  /\ response.body.data.source = "blockchain" => decoded
            /\ ~decoded => response.body.data.source = "fallback"

\* a return value (s, t, ...) with numbers s and t
NumericTuple(rv) ==
    /\ rv.native = "array"
    /\ Len(rv.items) >= 2
    /\ rv.items[1].type = "number"
    /\ rv.items[2].type = "number"

C14_ScoreWithinTen ==
    \A rv \in Retvals :
        (StatsServed /\ ReadReturned(rv) /\ NumericTuple(rv)
            /\ rv.items[1].num \in 0..MaxStoredScore) =>
            /\ response.body.data.score \in 0..Num(10)
            /\ response.body.data.transactions >= 0
            /\ response.body.data.transactions % 10 = 0

RefineServed == srvRequest.route = "refine" /\ srvPc = "responded"

\* the diagnostics that contain one of the three texts in some letter case
TrapDiagnostics == {DiagTrap, DiagVmTrap, DiagUnreachable, DiagLowerTrap}

\* the simulation of refine_strategy failed with diagnostic d
SimulationFailedWith(d) ==
    /\ Len(srvCall) >= 3
    /\ srvCall[3].call = "refine_strategy"
    /\ srvCall[3].kind = "error"
    /\ srvCall[3].error = d

\* C15: when the simulation of a refine request fails with a diagnostic that
\* contains 'unreachablecodereached', 'vm call trapped' or 'unreachable' in
\* any letter case, the service result and the POST /refine response have
\* success = false, error = 'COOLDOWN_ACTIVE' and a cooldownRemaining >= 0
\* that is the value of the follow-up cooldown read, or 0 when that read
\* fails; the error is never SIMULATION_FAILED.
C15_TrapIsCooldown ==
    \A d \in TrapDiagnostics :
        (RefineServed /\ SimulationFailedWith(d)) =>
            /\ Len(srvCall) = 4
            /\ srvCall[4].call = "get_cooldown_remaining"
            /\ \A r \in {srvResult, response.body} :
                   /\ r.success = FALSE
                   /\ r.error = COOLDOWN_ACTIVE
                   /\ r.error # SIMULATION_FAILED
                   /\ r.cooldownRemaining \in Nat
                   /\ srvCall[4].kind # "success" => r.cooldownRemaining = 0
                   /\ (srvCall[4].kind = "success" /\ srvCall[4].native.type = "number")
                          => r.cooldownRemaining = srvCall[4].native.num

\* a mixed-case trap diagnostic answered with the seconds the follow-up read
\* returned
C15_Witness ==
    /\ RefineServed
    /\ SimulationFailedWith(DiagTrap)
    /\ Len(srvCall) = 4
    /\ srvCall[4].kind = "success"
    /\ srvCall[4].native = JsNumber(2)
    /\ response.status = 400
    /\ response.body.error = COOLDOWN_ACTIVE
    /\ response.body.cooldownRemaining = 2

RefineTags == {COOLDOWN_ACTIVE, SIMULATION_FAILED, UNKNOWN_ERROR}

\* C16: every POST /refine response is a tagged result: success = true with
\* a transactionXDR, or success = false with error one of COOLDOWN_ACTIVE,
\* SIMULATION_FAILED, UNKNOWN_ERROR; for every request body (walletAddress
\* missing or not a string, body not JSON) and every outcome of the service.
C16_TaggedResult ==
    RefineServed =>
        \/ /\ response.body.success = TRUE
           /\ "transactionXDR" \in DOMAIN response.body
        \/ /\ response.body.success = FALSE
           /\ "error" \in DOMAIN response.body
           /\ response.body.error \in RefineTags

\* the body was read and walletAddress is missing or not a string
ValidationFailed ==
    /\ srvRequest.body.json = "object"
    /\ srvRequest.body.walletAddress \notin {JsString(GA), JsString(XA)}

\* C17: POST /refine answers 200 exactly when the result has success = true,
\* 400 exactly for a validation failure, COOLDOWN_ACTIVE and
\* SIMULATION_FAILED, and 500 for every other error, those that the service
\* reports as UNKNOWN_ERROR included.
C17_RefineStatus ==
    RefineServed =>
        /\ response.status \in {200, 400, 500}
        /\ response.status = 200 <=> response.body.success = TRUE
        /\ response.status = 400 <=>
               \/ ValidationFailed
               \/ /\ srvResult # NoResult
                  /\ ~srvResult.success
                  /\ srvResult.error \in {COOLDOWN_ACTIVE, SIMULATION_FAILED}
        /\ (srvResult # NoResult /\ ~srvResult.success /\ srvResult.error = UNKNOWN_ERROR)
               => response.status = 500

Served == srvPc = "responded"

\* C18: every response of GET /stats, POST /refine and POST /submit, on the
\* success path and on every failure path, validation errors included,
\* carries a Cache-Control header that forbids caching.
C18_NoCacheEverywhere ==
    Served =>
        /\ "Cache-Control" \in DOMAIN response.headers
        /\ response.headers["Cache-Control"] = "no-store, max-age=0"

SubmitServed == srvRequest.route = "submit" /\ srvPc = "responded"

\* the signed transaction the route reads from the body
SubmittedXdr == Or(srvRequest.body.signedXDR, srvRequest.body.signedXdr)

\* C19: POST /submit answers success = true only when the ledger accepted the
\* transaction: every other status of sendTransaction (ERROR, TRY_AGAIN_LATER,
\* DUPLICATE) gives success = false, a 4xx or 5xx status and the raw result
\* attached; a missing or non-string signedXdr/signedXDR gives 400 and nothing
\* is submitted; an exception while deserializing or submitting gives 500.
C19_SubmitSuccessOnlyIfAccepted ==
    SubmitServed =>
        /\ response.body.success = TRUE =>
               srvCall # NoCall /\ srvCall[1].status = "PENDING"
        /\ (srvCall # NoCall
               /\ srvCall[1].status \in {"ERROR", "TRY_AGAIN_LATER", "DUPLICATE"}) =>
               /\ response.body.success = FALSE
               /\ response.status >= 400
               /\ "details" \in DOMAIN response.body
               /\ response.body.details = srvCall[1]
        /\ (srvRequest.body.json = "object"
               /\ (Falsy(SubmittedXdr) \/ SubmittedXdr.type # "string")) =>
               /\ response.status = 400
               /\ srvCall = NoCall
        /\ (srvCall # NoCall /\ srvCall[1].status = "throws") => response.status = 500
        /\ (srvRequest.body.json = "object" /\ SubmittedXdr = JsString(GarbageXdr)) =>
               response.status = 500 /\ srvCall = NoCall

-----------------------------------------------------------------------------
(* Further properties of the wallet controller, checked under Spec *)

\* C24: a poll tick whose getAddress() reply is a non-empty address starting
\* with 'G' sets address to it with isAuthorized = true, isLoading = false,
\* isWalletLocked = false and error = null in one update, cancels the polling
\* timer, starts a balance fetch for that address and, once the fetch has
\* settled, persists the marker for the address; no other poll reply does.
C24_PollAcquires ==
    [][ /\ lastOp' \in {"poll.acquired", "poll.noAddress"} =>
            /\ Pending("poll.getAddress") # {}
            /\ lastOp' = "poll.acquired" <=>
                   /\ lastReply' \in {GA, GB}
                   /\ lastReply'[1] = "G"
        /\ lastOp' = "poll.acquired" =>
            /\ state' = [state EXCEPT !.address = lastReply', !.isAuthorized = TRUE,
                                      !.isLoading = FALSE, !.isWalletLocked = FALSE,
                                      !.error = Null]
            /\ pollTimers' = {}
            /\ pollingIntervalRef' = 0
            /\ CopiesIn(Op("loadAccount", lastReply', TRUE), inflight') =
                   CopiesIn(Op("loadAccount", lastReply', TRUE), inflight) + 1
            /\ storage' = storage
        /\ \A pk \in {GA, GB} :
              CopiesIn(Op("loadAccount", pk, TRUE), inflight') <
                  CopiesIn(Op("loadAccount", pk, TRUE), inflight) =>
                     storage' = [present |-> TRUE, address |-> pk, isAuthorized |-> TRUE]
      ]_vars

\* a poll tick got the address while the timer was registered and no marker
\* was stored: the timer is cancelled and the balance fetch is outstanding
C24_Witness ==
    /\ lastOp = "poll.acquired"
    /\ lastReply = GA
    /\ state.address = GA
    /\ state.isAuthorized
    /\ pollTimers = {}
    /\ BagIn(Op("loadAccount", GA, TRUE), inflight)
    /\ storage = NoMarker

\* C25: a poll tick whose getAddress() reply is empty, not 'G'-prefixed or a
\* rejection leaves address, isAuthorized, error and the rest of the state
\* and the polling timer as they are; the polling timer goes away only with
\* an acquiring reply, a disconnect() or a failing connect(), so that without
\* these polling goes on for ever.
C25_PollingPersists ==
    [][ /\ lastOp' = "poll.noAddress" =>
            /\ lastReply' \in {EmptyString, XA, Throws}
            /\ state' = state
            /\ pollTimers' = pollTimers
            /\ pollingIntervalRef' = pollingIntervalRef
            /\ storage' = storage
        /\ lastReply' \in {EmptyString, XA, Throws} => lastOp' # "poll.acquired"
        /\ (pollTimers # {} /\ pollTimers' = {}) =>
               lastOp' \in {"poll.acquired", "disconnect"} \cup ConnectFailures
        /\ pollTimers # {} => ENABLED (CanIssue => PollTick)
      ]_vars

\* a rejected poll while connecting: the timer is registered, the spinner
\* shows and no error is set
C25_Witness ==
    /\ lastOp = "poll.noAddress"
    /\ lastReply = Throws
    /\ pollTimers # {}
    /\ state.isLoading
    /\ state.error = Null
    /\ state.address = Null

\* C26: a non-null address is always one that a getAddress() call of this
\* session returned: the address changes to a non-null value only in the step
\* that receives this very value as the reply of an outstanding poll or
\* auto-reconnect query, whatever the persisted marker holds.
C26_AddressIsLive ==
    [][ (state'.address # state.address /\ state'.address # Null) =>
            /\ lastOp' \in {"poll.acquired", "auto.restored"}
            /\ lastReply' = state'.address
            /\ lastReply' \in AddressReplies
            /\ \E op \in Pending("poll.getAddress") \cup Pending("auto.getAddress") :
                   CopiesIn(op, inflight') = CopiesIn(op, inflight) - 1
      ]_vars

\* the marker names one address and the wallet answered another: the state
\* holds the wallet's
C26_Witness ==
    /\ storage = Marker(GA)
    /\ state.address = GB
    /\ lastOp = "poll.acquired"
    /\ lastReply = GB

\* the step handles a reply by which the monitor learns that the wallet is
\* gone: isConnected() false, or getAddress() without an address
NegativeSignal ==
    \/ lastOp' = "monitor.isConnected" /\ lastReply' = <<"false">>
    \/ lastOp' = "monitor.getAddress" /\ lastReply' = EmptyString

\* what a step of the monitor may change
C27_Step ==
    /\ lastOp' = "monitor.tick" =>
        /\ monitorTimer
        /\ state.address # Null
        /\ state' = state
    /\ lastOp' \in {"monitor.isConnected", "monitor.getAddress"} =>
        /\ NegativeSignal =>
               /\ state'.isWalletLocked
               /\ state'.error \in {MsgWalletDisconnected, MsgWalletLocked}
               /\ state' = [state EXCEPT !.isWalletLocked = TRUE, !.error = state'.error]
        /\ ~NegativeSignal => state' = state
    /\ lastOp' = "monitor.threw" => state' = state
    /\ lastOp' \in {"monitor.tick", "monitor.isConnected", "monitor.getAddress",
                    "monitor.threw"} =>
        /\ storage' = storage
        /\ pollTimers' = pollTimers
        /\ pollingIntervalRef' = pollingIntervalRef
        /\ monitorTimer' = monitorTimer

\* C27: the monitor's interval is registered exactly while the provider is
\* mounted with a non-null address, and its ticks start only then; a tick
\* that sees a negative signal sets isWalletLocked = true and an error message
\* and leaves address, isAuthorized, balance and isLoading, the marker and
\* the timers as they are; any other reply, and a rejected call, change
\* nothing.
C27_MonitorFrame ==
    /\ [](monitorTimer <=> (isClientReady /\ state.address # Null))
    /\ [][C27_Step]_vars

\* the monitor found the connected wallet locked: the connection data and
\* the marker are kept and the monitor goes on
C27_Witness ==
    /\ lastOp = "monitor.getAddress"
    /\ lastReply = EmptyString
    /\ state.isWalletLocked
    /\ state.error = MsgWalletLocked
    /\ state.address = GA
    /\ state.isAuthorized
    /\ state.balance # Null
    /\ storage = Marker(GA)
    /\ monitorTimer

MonitorOps == {"monitor.tick", "monitor.isConnected", "monitor.getAddress", "monitor.threw"}

\* C28: no step of the monitor takes isWalletLocked back to false or clears
\* the error, whatever isConnected() and getAddress() answer; isWalletLocked
\* goes from true to false only in a step of an acquiring poll, of a
\* restoring auto-reconnect, of a failing connect() or of disconnect().
C28_MonitorNeverUnlocks ==
    [][ /\ lastOp' \in MonitorOps =>
            /\ state.isWalletLocked => state'.isWalletLocked
            /\ state.error # Null => state'.error # Null
        /\ (state.isWalletLocked /\ ~state'.isWalletLocked) =>
               lastOp' \in {"poll.acquired", "auto.restored", "disconnect"} \cup ConnectFailures
      ]_vars

\* after the monitor had found the wallet locked, a tick of it received the
\* connected address again: the lock and the message stay
C28_Witness ==
    /\ lastOp = "monitor.getAddress"
    /\ lastReply = GA
    /\ state.address = GA
    /\ state.isWalletLocked
    /\ state.error = MsgWalletLocked

\* a connect() call stands at one of its awaits
ConnectInProgress ==
    Pending("connect.isConnected") \cup Pending("connect.requestAccess") # {}

\* C29: whenever isLoading is true, a connect() call is still awaiting
\* isConnected() or requestAccess(), or the polling timer is registered.
C29_LoadingHasCause ==
    state.isLoading => (ConnectInProgress \/ pollTimers # {})

\* the spinner shows with no connect() in progress: polling alone keeps it,
\* after a tick that brought no address
C29_Witness ==
    /\ state.isLoading
    /\ ~ConnectInProgress
    /\ pollTimers # {}
    /\ lastOp = "poll.noAddress"

\* the awaits of the handlers behind which a simulateTransaction is pending
SimulateAwaits == {"getMetrics", "checkCooldown", "simulate", "recheckCooldown"}

\* C23: every simulate-style call to the contract RPC is raced against the
\* 10 s timeout, so that getContractStats, getCooldownRemaining and
\* refineStrategy return even when the RPC never answers: whenever a handler
\* waits for a simulation, the timeout is pending with it.
C23_SimulationsBounded ==
    (Configured(contractId) /\ srvPc \in SimulateAwaits) => srvTimer

-----------------------------------------------------------------------------
(* Properties of the refine action, checked under SpecRefine *)

RefineOrder == <<"refine", "sign", "submit">>

\* the step was answered with a failure
StepFailed(i) ==
    /\ Len(refineReplies) >= i
    /\ CASE i = 1 -> ~(/\ refineReplies[1].kind = "json"
                       /\ refineReplies[1].success
                       /\ refineReplies[1].transactionXDR.type = "string"
                       /\ refineReplies[1].transactionXDR.str = PreparedXdr)
         [] i = 2 -> \/ refineReplies[2].type \in {"throws", "undefined"}
                     \/ /\ refineReplies[2].type = "string"
                        /\ refineReplies[2].str = EmptyString
                     \/ /\ refineReplies[2].type = "object"
                        /\ \A x \in {refineReplies[2].signedTxXdr, refineReplies[2].signedXdr,
                                      refineReplies[2].signedXDR} :
                               x \in {Undefined, JsString(EmptyString)}
         [] OTHER -> ~(/\ refineReplies[3].kind = "json"
                       /\ refineReplies[3].ok
                       /\ refineReplies[3].success)

\* C20: within one refine action POST /refine, signTransaction and POST
\* /submit run in this order and at most once each; signTransaction is called
\* only after /refine answered success with a transactionXDR, POST /submit
\* only after signTransaction returned a non-empty signed payload; a failure
\* of any step ends the action with no later step and no retry.
C20_StepsInOrder ==
    /\ \E n \in 0..3 : refineSteps = SubSeq(RefineOrder, 1, n)
    /\ Len(refineReplies) <= Len(refineSteps)
    /\ Len(refineSteps) >= 2 => ~StepFailed(1)
    /\ Len(refineSteps) >= 3 => ~StepFailed(2)
    /\ \A i \in 1..3 :
           StepFailed(i) =>
               /\ Len(refineSteps) = i
               /\ refinePc = "idle"
               /\ ~isRefining
    /\ refinePc = "idle" => Len(refineReplies) = Len(refineSteps)
    /\ refinePc # "idle" => isRefining /\ Len(refineReplies) = Len(refineSteps) - 1

\* the three steps ran and the ledger accepted the transaction
C20_Witness ==
    /\ refineSteps = RefineOrder
    /\ Len(refineReplies) = 3
    /\ ~StepFailed(3)
    /\ refinePc = "idle"
    /\ refineMessage.type = "success"

\* the field holds a non-empty string
NonEmpty(field) == field.type = "string" /\ field.str # EmptyString

\* the running action has sent POST /submit with this signedXdr
Relayed(xdr) ==
    /\ refineSteps = RefineOrder
    /\ submitBody = xdr

\* C21: a signing response that is a non-empty string, or an object with a
\* non-empty signedTxXdr, signedXdr or signedXDR (tried in this order), is
\* relayed to POST /submit as it is; a response with none of these ends the
\* action with 'Wallet returned an empty signature' and no submit request.
C21_SignatureRelayed ==
    Len(refineReplies) >= 2 =>
        LET signedResult == refineReplies[2]
        IN  CASE signedResult.type = "throws" -> refineSteps = <<"refine", "sign">>
              [] signedResult.type = "string" /\ signedResult.str # EmptyString ->
                    Relayed(JsString(signedResult.str))
              [] signedResult.type = "object" /\ NonEmpty(signedResult.signedTxXdr) ->
                    Relayed(signedResult.signedTxXdr)
              [] /\ signedResult.type = "object"
                 /\ ~NonEmpty(signedResult.signedTxXdr)
                 /\ NonEmpty(signedResult.signedXdr) ->
                    Relayed(signedResult.signedXdr)
              [] /\ signedResult.type = "object"
                 /\ ~NonEmpty(signedResult.signedTxXdr)
                 /\ ~NonEmpty(signedResult.signedXdr)
                 /\ NonEmpty(signedResult.signedXDR) ->
                    Relayed(signedResult.signedXDR)
              [] OTHER ->
                    /\ refineSteps = <<"refine", "sign">>
                    /\ submitBody = Undefined
                    /\ refinePc = "idle"
                    /\ refineMessage =
                           Message("error", <<"Wallet returned an empty signature">>)

\* the wallet answered an object whose signedTxXdr is empty and whose
\* signedXdr and signedXDR differ, and signedXdr went to POST /submit
C21_Witness ==
    /\ Len(refineReplies) >= 2
    /\ refineReplies[2].type = "object"
    /\ refineReplies[2].signedTxXdr = JsString(EmptyString)
    /\ refineReplies[2].signedXDR = JsString(PreparedXdr)
    /\ Relayed(JsString(SignedXdr))

\* the wallet answered an object without any of the three fields
C21_WitnessEmpty ==
    /\ Len(refineReplies) = 2
    /\ refineReplies[2].type = "object"
    /\ refineReplies[2].signedTxXdr = Undefined
    /\ refineReplies[2].signedXdr = Undefined
    /\ refineReplies[2].signedXDR = Undefined
    /\ refineMessage.type = "error"

\* this step is a click on Refine Strategy: handleRefineStrategy runs to its
\* first await or to its early return
RefineStarts == refineCount' # refineCount

C30_Step ==
    /\ RefineStarts =>
           /\ ~isRefining
           /\ refinePc = "idle"
           /\ state.isAuthorized
           /\ state.address # Null
           /\ cooldownSeconds.isNull
           /\ ~cooldownInterval
           /\ isRefining'
           /\ refineSteps' = <<"refine">>
    /\ (RefineStarts /\ (~state.isAuthorized \/ state.address = Null)) =>
           /\ refineSteps' = <<>>
           /\ UNCHANGED <<isRefining, refinePc, submitBody>>
    /\ (refinePc # "idle" /\ refinePc' = "idle") => ~isRefining'
    /\ Len(refineSteps') > Len(refineSteps) => isRefining'

\* C30: at most one refine sequence is in flight: a sequence starts only
\* with isRefining false, an authorised wallet with an address and no
\* countdown; isRefining is true exactly while the sequence stands at one of
\* its awaits, and is false again when it has ended, whatever the outcome;
\* without an authorised wallet no request is issued and isRefining is not
\* set.
C30_OneRefineAtATime ==
    /\ [](isRefining <=> refinePc # "idle")
    /\ [][C30_Step]_vars

\* a second sequence runs after the first has ended, and stands at its last
\* await
C30_Witness ==
    /\ refineCount = 2
    /\ isRefining
    /\ refinePc = "submit"
    /\ refineSteps = RefineOrder

-----------------------------------------------------------------------------
(* Properties of the countdown, checked under SpecRefineFair *)

\* the countdown that a COOLDOWN_ACTIVE reply starts, in tenths of a second
CountdownFor(result) ==
    IF result.cooldownRemaining.type = "number" /\ result.cooldownRemaining.num > 0
    THEN 10 * result.cooldownRemaining.num
    ELSE 20

\* this step is the arrival of a COOLDOWN_ACTIVE reply
CooldownReplyStep ==
    /\ refinePc = "refine"
    /\ Len(refineReplies') = 1
    /\ refineReplies'[1].kind = "json"
    /\ refineReplies'[1].error = COOLDOWN_ACTIVE

\* this step is a tick of the running countdown
CountdownStep ==
    /\ ~cooldownSeconds.isNull
    /\ cooldownSeconds' # cooldownSeconds
    /\ refineCount' = refineCount
    /\ reloadTimer' = reloadTimer

C22_Step ==
    /\ CooldownReplyStep =>
           /\ cooldownSeconds' = Counting(CountdownFor(refineReplies'[1]), 0)
           /\ cooldownInterval'
           /\ refineMessage'.type = "cooldown"
    /\ CountdownStep =>
           /\ UNCHANGED <<refineSteps, refinePc, isRefining, submitBody, refineReplies>>
           /\ IF cooldownSeconds.seconds = 0 /\ cooldownSeconds.residue = 0
              THEN cooldownSeconds' = NoCooldown /\ refineMessage' = NoMessage
              ELSE /\ ~cooldownSeconds'.isNull
                   /\ cooldownSeconds'.seconds =
                          IF cooldownSeconds.seconds >= 1 THEN cooldownSeconds.seconds - 1 ELSE 0
                   /\ UNCHANGED refineMessage
    /\ refineCount' # refineCount => cooldownSeconds.isNull

C22_State ==
    /\ cooldownSeconds.seconds >= 0
    /\ ~(cooldownSeconds.seconds = 0 /\ cooldownSeconds.residue < 0)
    /\ ~cooldownSeconds.isNull =>
           /\ ~RefineButtonEnabled
           /\ refinePc = "idle"
           /\ cooldownInterval

\* C22: a COOLDOWN_ACTIVE reply starts a positive countdown (cooldownRemaining
\* when > 0, else 2.0 s); each tick takes 0.1 s off it, never below 0; the
\* tick after 0 clears the countdown and its message, so every countdown
\* ends; a tick issues no request, and no refine action starts while
\* cooldownSeconds is non-null.
C22_CountdownEnds ==
    /\ [][C22_Step]_vars
    /\ []C22_State
    /\ (~cooldownSeconds.isNull) ~> cooldownSeconds.isNull

\* a countdown of the length the server gave has been ticked down to zero
C22_Witness ==
    /\ Len(refineReplies) = 1
    /\ refineReplies[1].error = COOLDOWN_ACTIVE
    /\ refineReplies[1].cooldownRemaining = JsNumber(1)
    /\ cooldownSeconds = Counting(0, 0)
    /\ refineMessage.type = "cooldown"

====
